---------------------------- MODULE Spec2Model ----------------------------
(***************************************************************************)
(* Collaborative whiteboard: the relay server (src/server.js), the         *)
(* WhiteboardApp browser client (public/app.js) and the reconnection       *)
(* manager exercised by the error-handling tests.                          *)
(*                                                                         *)
(* Spec          server + NumClients WhiteboardApp clients over FIFO       *)
(*               socket.io connections (relay behaviour).                  *)
(* SpecBoard     the same clients drawing and clearing on the shared board *)
(*               once all of them are connected.                           *)
(* SpecApp       one WhiteboardApp client with every user operation        *)
(*               (draw, undo, clear, offline buffer, staggered flush)      *)
(*               against the same server.                                  *)
(* SpecReconnect the reconnection manager (attemptReconnect / reset).      *)
(* SpecValidate  isValidDrawData applied to one payload.                   *)
(* SpecGuard     one WhiteboardApp drawing offline up to the capacity      *)
(*               guard of startDrawing.                                    *)
(* SpecSocketManager  the SocketManager handlers and the CanvasManager     *)
(*               pointer handlers with their StateManager (modular client).*)
(* SpecThrottle  the draw pipeline of the throttled WhiteboardApp with its *)
(*               clock.                                                    *)
(* SpecHistory   one offline WhiteboardApp drawing past the history limit. *)
(* SpecErrors    one WhiteboardApp whose page records errors past the      *)
(*               error-log limit.                                          *)
(* SpecRemoteClear  the shared board with one client drawing and the       *)
(*               others clearing.                                          *)
(* SpecFlush     one WhiteboardApp client whose connection comes and goes, *)
(*               with the public flushBuffer call.                         *)
(* SpecUndo      the shared board with one client undoing.                 *)
(* SpecStateManager  NumInstances StateManager instances of one page.      *)
(***************************************************************************)
EXTENDS Integers, Sequences, FiniteSets, TLC

(***************************************************************************)
(* Bounds of the model.                                                    *)
(***************************************************************************)
NumClients == 2
MaxSockets == 3
MaxSamples == 2
MaxClears == 1
MaxRaw == 1
MaxCalls == 7
MaxInputs == 3
MaxBoardInputs == 5
MaxAppInputs == 7
MaxOverflow == 2
MaxGuardInputs == 5
MaxManagerInputs == 5
MaxThrottleInputs == 8
MaxElapsed == 100
MaxHistoryInputs == 4
MaxOtherErrors == 1
MaxErrorInputs == 3
MaxRemoteInputs == 5
MaxFlushInputs == 7
MaxUndoInputs == 7
NumInstances == 2
MaxStateInputs == 4

(***************************************************************************)
(* Program constants.                                                      *)
(***************************************************************************)
MIN_BRUSH_SIZE == 1
MAX_BRUSH_SIZE == 20
maxReconnectAttempts == 5
ErrorLogMax == 50
maxAttempts == 5
baseDelay == 1000
BackoffCapFactor == 3
throttleDelay == 50
Epoch == 1000
MAX_ERROR_LOG_SIZE == 50
MAX_HISTORY_SIZE == 1000

Clients == 1..NumClients
SocketIds == 1..MaxSockets

(***************************************************************************)
(* JavaScript values.  A value is a pair <<kind, n>>; NaN and Infinity are *)
(* numbers for typeof, socket ids and ISO timestamps are strings.          *)
(***************************************************************************)
Undef == <<"undefined", 0>>
Num(n) == <<"number", n>>
NaN == <<"nan", 0>>
Infinity == <<"inf", 0>>
Str(n) == <<"string", n>>
SidStr(s) == <<"sid", s>>
IsoStr == <<"iso", 0>>

typeof(v) ==
    CASE v[1] \in {"number", "nan", "inf"} -> "number"
      [] v[1] \in {"string", "sid", "iso"} -> "string"
      [] OTHER -> "undefined"

\* v >= n and v <= n for a JS value v and an integer n (comparisons with NaN
\* are false, +Infinity is above every integer)
jsGeq(v, n) ==
    CASE v[1] = "number" -> v[2] >= n
      [] v[1] = "inf" -> TRUE
      [] OTHER -> FALSE

jsLeq(v, n) ==
    CASE v[1] = "number" -> v[2] <= n
      [] OTHER -> FALSE

(***************************************************************************)
(* Wire payloads.  obj = FALSE is a null / undefined payload.              *)
(***************************************************************************)
NullData ==
    [obj |-> FALSE, x0 |-> Undef, y0 |-> Undef, x1 |-> Undef, y1 |-> Undef,
     color |-> Undef, brushSize |-> Undef, timestamp |-> Undef,
     senderId |-> Undef]

LineData(x0, y0, x1, y1, color, brushSize, timestamp) ==
    [obj |-> TRUE, x0 |-> x0, y0 |-> y0, x1 |-> x1, y1 |-> y1,
     color |-> color, brushSize |-> brushSize, timestamp |-> timestamp,
     senderId |-> Undef]

Msg(type, data, n, from) == [type |-> type, data |-> data, n |-> n, from |-> from]

isValidDrawData_NoUpperBound(data) ==
    /\ data.obj
    /\ typeof(data.x0) = "number"
    /\ typeof(data.y0) = "number"
    /\ typeof(data.x1) = "number"
    /\ typeof(data.y1) = "number"
    /\ typeof(data.color) = "string"
    /\ typeof(data.brushSize) = "number"
    /\ jsGeq(data.brushSize, MIN_BRUSH_SIZE)

isValidDrawData(data) ==
    /\ data.obj
    /\ typeof(data.x0) = "number"
    /\ typeof(data.y0) = "number"
    /\ typeof(data.x1) = "number"
    /\ typeof(data.y1) = "number"
    /\ typeof(data.color) = "string"
    /\ typeof(data.brushSize) = "number"
    /\ jsGeq(data.brushSize, MIN_BRUSH_SIZE)
    /\ jsLeq(data.brushSize, MAX_BRUSH_SIZE)

\* payloads a socket may put on the wire without going through the app
\* (the integration tests emit them with a bare socket.io client)
GoodLine(b) == LineData(Num(10), Num(20), Num(150), Num(200), Str(1), b, Undef)
RawPayloads ==
    { GoodLine(Num(0)), GoodLine(Num(1)), GoodLine(Num(21)), GoodLine(Undef),
      GoodLine(Str(4)), GoodLine(NaN), NullData,
      [GoodLine(Num(4)) EXCEPT !.x0 = Undef],
      [GoodLine(Num(4)) EXCEPT !.y1 = Str(7)],
      [GoodLine(Num(4)) EXCEPT !.color = Num(3)],
      [GoodLine(Num(20)) EXCEPT !.senderId = SidStr(1), !.timestamp = Num(5)] }

\* payloads handed to isValidDrawData directly (the function is exported
\* for the tests): every mix of well-typed, ill-typed, missing, NaN and
\* infinite fields, and a null payload
CoordValues == {Num(10), Num(0), NaN, Infinity, Undef, Str(7)}
ColorValues == {Str(1), Num(3), Undef}
BrushValues == {Num(0), Num(1), Num(4), Num(20), Num(21), NaN, Infinity, Undef, Str(4)}
ValidatorPayloads ==
    {NullData} \cup
    { LineData(x, Num(20), Num(150), y, col, b, Undef) :
        x \in CoordValues, y \in CoordValues, col \in ColorValues, b \in BrushValues }

VARIABLES
    \* ---- server.js
    connectedUsers,     \* keys of the connectedUsers Map
    \* ---- socket.io transport
    owner,              \* socket id -> client it was created for (0: unused)
    link,               \* client -> id of its current connection (0: none)
    wantConn,           \* client -> the socket.io client is trying to connect
    sockConnected,      \* client -> socket.connected
    toServer,           \* socket id -> events in flight to the server
    toClient,           \* socket id -> events in flight to the client
    \* ---- WhiteboardApp state (public/app.js), one per client
    isConnected, isReconnecting, socketId, reconnectAttempts, onlineUsers,
    isDrawing, lastX, linesDrawn, localHistory, offlineBuffer, errorLog,
    canvas,             \* strokes painted since the canvas was last wiped
    timers,             \* pending setTimeout callbacks of flushOfflineBuffer
    \* ---- bookkeeping of what happened
    emitted,            \* client -> draw events the app emitted on its socket
    clearsIssued,       \* client -> confirmed clears sent to the server
    clearedAt,          \* client -> its lastX when it last processed a clear
    rawSent,            \* number of raw payloads put on the wire
    invalidDraws,       \* draw events the server rejected (its console.warn lines)
    inputs,             \* number of user and environment events so far
    \* ---- reconnection manager (error-handling tests)
    rmAttempts, rmLog,
    \* ---- isValidDrawData applied to one payload (server.js)
    vData,              \* the payload
    vResult,            \* "none" before the call, then "true" or "false"
    \* ---- result of the last WhiteboardApp.manualReconnect() call
    reconnectResult,    \* client -> "none", "true" or "false"
    \* ---- SocketManager with its StateManager (modular client)
    smUp,               \* socket.connected
    smIsConnected, smIsReconnecting, smSocketId, smOfflineBuffer, smLocalHistory,
    smLinesDrawn, smErrorLog,
    smEmitted,          \* events SocketManager emitted on its socket
    smNextLine,         \* number of the next segment the modular app draws
    smIsDrawing,        \* StateManager's isDrawing
    \* ---- throttled WhiteboardApp (draw pipeline)
    thNow,              \* Date.now()
    thIsConnected, thIsDrawing, thLastEmitTime, thThrottleDelay, thLocalHistory,
    thOfflineBuffer,
    thTimers,           \* pending setTimeout callbacks of flushOfflineBuffer
    thEmitted,          \* draw events handed to socket.emit
    thStroke,           \* number of strokes started so far
    thLinesDrawn,
    thCanvas,           \* segments drawLine painted on the canvas
    \* ---- StateManager instances
    stArrays,           \* the arrays of the page: array number -> its elements
    stInstances         \* instance -> the arrays its state refers to, or NoInstance

netVars == <<connectedUsers, owner, link, wantConn, sockConnected, toServer, toClient>>
appVars == <<isConnected, isReconnecting, socketId, reconnectAttempts, onlineUsers,
             isDrawing, lastX, linesDrawn, localHistory, offlineBuffer, errorLog,
             canvas, timers>>
logVars == <<emitted, clearsIssued, clearedAt, rawSent, invalidDraws>>
rmVars == <<rmAttempts, rmLog>>
valVars == <<vData, vResult>>
smVars == <<smUp, smIsConnected, smIsReconnecting, smSocketId, smOfflineBuffer,
            smLocalHistory, smLinesDrawn, smErrorLog, smEmitted, smNextLine, smIsDrawing>>
thVars == <<thNow, thIsConnected, thIsDrawing, thLastEmitTime, thThrottleDelay,
            thLocalHistory, thOfflineBuffer, thTimers, thEmitted, thStroke,
            thLinesDrawn, thCanvas>>
stVars == <<stArrays, stInstances>>
extVars == <<valVars, reconnectResult, smVars, thVars, stVars>>
vars == <<netVars, appVars, logVars, inputs, rmVars, extVars>>

InitWhiteboard ==
    /\ connectedUsers = {}
    /\ owner = [s \in SocketIds |-> 0]
    /\ link = [c \in Clients |-> 0]
    /\ wantConn = [c \in Clients |-> TRUE]
    /\ sockConnected = [c \in Clients |-> FALSE]
    /\ toServer = [s \in SocketIds |-> <<>>]
    /\ toClient = [s \in SocketIds |-> <<>>]
    /\ isConnected = [c \in Clients |-> FALSE]
    /\ isReconnecting = [c \in Clients |-> FALSE]
    /\ socketId = [c \in Clients |-> 0]
    /\ reconnectAttempts = [c \in Clients |-> 0]
    /\ onlineUsers = [c \in Clients |-> 0]
    /\ isDrawing = [c \in Clients |-> FALSE]
    /\ lastX = [c \in Clients |-> 0]
    /\ linesDrawn = [c \in Clients |-> 0]
    /\ localHistory = [c \in Clients |-> <<>>]
    /\ offlineBuffer = [c \in Clients |-> <<>>]
    /\ errorLog = [c \in Clients |-> <<>>]
    /\ canvas = [c \in Clients |-> <<>>]
    /\ timers = [c \in Clients |-> <<>>]
    /\ emitted = [c \in Clients |-> <<>>]
    /\ clearsIssued = [c \in Clients |-> 0]
    /\ clearedAt = [c \in Clients |-> 0]
    /\ rawSent = 0
    /\ invalidDraws = 0
    /\ inputs = 0
    /\ rmAttempts = 0
    /\ rmLog = <<>>
    /\ reconnectResult = [c \in Clients |-> "none"]

\* SocketManager.init + StateManager defaults
InitSocketManager ==
    /\ smUp = FALSE
    /\ smIsConnected = FALSE
    /\ smIsReconnecting = FALSE
    /\ smSocketId = 0
    /\ smOfflineBuffer = <<>>
    /\ smLocalHistory = <<>>
    /\ smLinesDrawn = 0
    /\ smErrorLog = <<>>
    /\ smEmitted = <<>>
    /\ smNextLine = 1
    /\ smIsDrawing = FALSE

\* state of the throttled WhiteboardApp; Date.now() is far above throttleDelay
InitThrottled ==
    /\ thNow = Epoch
    /\ thIsConnected = FALSE
    /\ thIsDrawing = FALSE
    /\ thLastEmitTime = 0
    /\ thThrottleDelay = throttleDelay
    /\ thTimers = <<>>
    /\ thLinesDrawn = 0
    /\ thCanvas = <<>>
    /\ thLocalHistory = <<>>
    /\ thOfflineBuffer = <<>>
    /\ thEmitted = <<>>
    /\ thStroke = 0

Instances == 1..NumInstances
NoInstance == [localHistory |-> 0, errorLog |-> 0, offlineBuffer |-> 0]

\* the module StateManager is loaded: DEFAULT_STATE holds three empty arrays
\* (localHistory, errorLog, offlineBuffer), numbered 1, 2 and 3
DEFAULT_STATE == [localHistory |-> 1, errorLog |-> 2, offlineBuffer |-> 3]

InitStateManager ==
    /\ stArrays = <<<<>>, <<>>, <<>>>>
    /\ stInstances = [i \in Instances |-> NoInstance]

Init ==
    /\ InitWhiteboard
    /\ InitSocketManager
    /\ InitThrottled
    /\ InitStateManager
    /\ vData = NullData
    /\ vResult = "none"

(***************************************************************************)
(* Transport.  Events travel in FIFO order on a connection.  An event sent *)
(* on a connection whose other end is gone is lost.                        *)
(***************************************************************************)
Deliverable(s) == owner[s] # 0 /\ link[owner[s]] = s

SendTo(q, targets, m) ==
    [t \in SocketIds |-> IF t \in targets /\ (Deliverable(t) \/ owner[t] = 0)
                          THEN Append(q[t], m) ELSE q[t]]

\* io.emit, socket.broadcast.emit and socket.emit on the server
ioEmit(q, users, m) == SendTo(q, users, m)
socketBroadcastEmit(q, users, s, m) == SendTo(q, users \ {s}, m)
socketEmit(q, s, m) == SendTo(q, {s}, m)

\* socket.emit on the client
ClientEmit(q, c, m) ==
    IF link[c] # 0 /\ link[c] \in connectedUsers
    THEN [q EXCEPT ![link[c]] = Append(@, m)]
    ELSE q


(***************************************************************************)
(* Relay server (src/server.js, second listing).                           *)
(***************************************************************************)
UserCountMsg(n) == Msg("user-count", NullData, n, 0)

FreshSocket == CHOOSE s \in SocketIds : owner[s] = 0 /\ \A t \in SocketIds : owner[t] = 0 => s <= t

\* io.on('connection'): the CONNECT packet goes out first, then the handler
\* registers the user, broadcasts the count and greets the new socket.
ServerConnection_CountBeforeSet(c) ==
    /\ wantConn[c] /\ link[c] = 0
    /\ \E s \in SocketIds : owner[s] = 0
    /\ LET s == FreshSocket
           users == connectedUsers \cup {s}
           q0 == [toClient EXCEPT ![s] = <<Msg("connect", NullData, s, 0)>>]
           q1 == ioEmit(q0, users, UserCountMsg(Cardinality(connectedUsers)))
           q2 == socketEmit(q1, s, Msg("welcome", NullData, Cardinality(users), 0))
       IN  /\ connectedUsers' = users
           /\ owner' = [owner EXCEPT ![s] = c]
           /\ link' = [link EXCEPT ![c] = s]
           /\ toClient' = q2
    /\ inputs' = inputs + 1
    /\ UNCHANGED <<wantConn, sockConnected, toServer, appVars, logVars, rmVars, extVars>>

ServerConnection(c) ==
    /\ wantConn[c] /\ link[c] = 0
    /\ \E s \in SocketIds : owner[s] = 0
    /\ LET s == FreshSocket
           users == connectedUsers \cup {s}
           q0 == [toClient EXCEPT ![s] = <<Msg("connect", NullData, s, 0)>>]
           q1 == ioEmit(q0, users, UserCountMsg(Cardinality(users)))
           q2 == socketEmit(q1, s, Msg("welcome", NullData, Cardinality(users), 0))
       IN  /\ connectedUsers' = users
           /\ owner' = [owner EXCEPT ![s] = c]
           /\ link' = [link EXCEPT ![c] = s]
           /\ toClient' = q2
    /\ inputs' = inputs + 1
    /\ UNCHANGED <<wantConn, sockConnected, toServer, appVars, logVars, rmVars, extVars>>

ServerHas(s, type) ==
    /\ s \in connectedUsers
    /\ toServer[s] # <<>>
    /\ Head(toServer[s]).type = type

enrichedData_ClientWins(lineData, s) ==
    [lineData EXCEPT !.senderId = IF @ = Undef THEN SidStr(s) ELSE @,
                     !.timestamp = IF @ = Undef THEN IsoStr ELSE @]

enrichedData_NoColor(lineData, s) ==
    [lineData EXCEPT !.senderId = SidStr(s), !.timestamp = IsoStr, !.color = Undef]

enrichedData_NoSpread(lineData, s) == [NullData EXCEPT !.obj = TRUE, !.senderId = SidStr(s), !.timestamp = IsoStr]

enrichedData(lineData, s) == [lineData EXCEPT !.senderId = SidStr(s), !.timestamp = IsoStr]

ServerDraw_ToEverySocket(s) ==
    /\ ServerHas(s, "draw")
    /\ LET lineData == Head(toServer[s]).data
       IN  /\ toServer' = [toServer EXCEPT ![s] = Tail(@)]
           /\ IF ~isValidDrawData(lineData)
              THEN /\ invalidDraws' = invalidDraws + 1
                   /\ toClient' = toClient
              ELSE /\ toClient' = socketBroadcastEmit(toClient, SocketIds, s,
                                      Msg("draw", enrichedData(lineData, s), 0, s))
                   /\ UNCHANGED invalidDraws
    /\ UNCHANGED inputs
    /\ UNCHANGED <<connectedUsers, owner, link, wantConn, sockConnected, appVars,
                   emitted, clearsIssued, clearedAt, rawSent, rmVars, extVars>>

\* socket.on('draw')
ServerDraw_Echo(s) ==
    /\ ServerHas(s, "draw")
    /\ LET lineData == Head(toServer[s]).data
       IN  /\ toServer' = [toServer EXCEPT ![s] = Tail(@)]
           /\ IF ~isValidDrawData(lineData)
              THEN /\ invalidDraws' = invalidDraws + 1
                   /\ toClient' = toClient
              ELSE /\ toClient' = ioEmit(toClient, connectedUsers,
                                      Msg("draw", enrichedData(lineData, s), 0, s))
                   /\ UNCHANGED invalidDraws
    /\ UNCHANGED inputs
    /\ UNCHANGED <<connectedUsers, owner, link, wantConn, sockConnected, appVars,
                   emitted, clearsIssued, clearedAt, rawSent, rmVars, extVars>>

ServerDraw(s) ==
    /\ ServerHas(s, "draw")
    /\ LET lineData == Head(toServer[s]).data
       IN  /\ toServer' = [toServer EXCEPT ![s] = Tail(@)]
           /\ IF ~isValidDrawData(lineData)
              THEN /\ invalidDraws' = invalidDraws + 1
                   /\ toClient' = toClient
              ELSE /\ toClient' = socketBroadcastEmit(toClient, connectedUsers, s,
                                      Msg("draw", enrichedData(lineData, s), 0, s))
                   /\ UNCHANGED invalidDraws
    /\ UNCHANGED inputs
    /\ UNCHANGED <<connectedUsers, owner, link, wantConn, sockConnected, appVars,
                   emitted, clearsIssued, clearedAt, rawSent, rmVars, extVars>>

\* socket.on('clear-canvas')
ServerClearCanvas_OthersOnly(s) ==
    /\ ServerHas(s, "clear-canvas")
    /\ toServer' = [toServer EXCEPT ![s] = Tail(@)]
    /\ toClient' = socketBroadcastEmit(toClient, connectedUsers, s, Msg("clear-canvas", NullData, 0, s))
    /\ UNCHANGED inputs
    /\ UNCHANGED <<connectedUsers, owner, link, wantConn, sockConnected, appVars, logVars, rmVars, extVars>>

ServerClearCanvas(s) ==
    /\ ServerHas(s, "clear-canvas")
    /\ toServer' = [toServer EXCEPT ![s] = Tail(@)]
    /\ toClient' = ioEmit(toClient, connectedUsers, Msg("clear-canvas", NullData, 0, s))
    /\ UNCHANGED inputs
    /\ UNCHANGED <<connectedUsers, owner, link, wantConn, sockConnected, appVars, logVars, rmVars, extVars>>

ServerGetUserCount_Broadcast(s) ==
    /\ ServerHas(s, "get-user-count")
    /\ toServer' = [toServer EXCEPT ![s] = Tail(@)]
    /\ toClient' = ioEmit(toClient, connectedUsers, UserCountMsg(Cardinality(connectedUsers)))
    /\ UNCHANGED inputs
    /\ UNCHANGED <<connectedUsers, owner, link, wantConn, sockConnected, appVars, logVars, rmVars, extVars>>

\* socket.on('get-user-count')
ServerGetUserCount(s) ==
    /\ ServerHas(s, "get-user-count")
    /\ toServer' = [toServer EXCEPT ![s] = Tail(@)]
    /\ toClient' = socketEmit(toClient, s, UserCountMsg(Cardinality(connectedUsers)))
    /\ UNCHANGED inputs
    /\ UNCHANGED <<connectedUsers, owner, link, wantConn, sockConnected, appVars, logVars, rmVars, extVars>>

ServerDisconnect_CountBeforeDelete(s) ==
    /\ s \in connectedUsers
    /\ connectedUsers' = connectedUsers \ {s}
    /\ toClient' = ioEmit(toClient, connectedUsers', UserCountMsg(Cardinality(connectedUsers)))
    /\ toServer' = [toServer EXCEPT ![s] = <<>>]
    /\ inputs' = inputs + 1
    /\ UNCHANGED <<owner, link, wantConn, sockConnected, appVars, logVars, rmVars, extVars>>

\* socket.on('disconnect'): whatever the socket still had in flight is gone
ServerDisconnect(s) ==
    /\ s \in connectedUsers
    /\ connectedUsers' = connectedUsers \ {s}
    /\ toClient' = ioEmit(toClient, connectedUsers', UserCountMsg(Cardinality(connectedUsers')))
    /\ toServer' = [toServer EXCEPT ![s] = <<>>]
    /\ inputs' = inputs + 1
    /\ UNCHANGED <<owner, link, wantConn, sockConnected, appVars, logVars, rmVars, extVars>>

(***************************************************************************)
(* WhiteboardApp (public/app.js).                                          *)
(***************************************************************************)
OfflineBufferLimit == 100

\* JavaScript truthiness of a value
Truthy(v) ==
    CASE v[1] = "number" -> v[2] # 0
      [] v[1] \in {"nan", "undefined"} -> FALSE
      [] OTHER -> TRUE

\* state.currentColor and state.brushSize keep their defaults '#000000' and 4
CurrentColor == Str(0)
BrushSize == Num(4)

\* what drawLine paints for a payload
drawLine(lineData) ==
    [x0 |-> lineData.x0, y0 |-> lineData.y0, x1 |-> lineData.x1, y1 |-> lineData.y1,
     color |-> lineData.color,
     width |-> IF Truthy(lineData.brushSize) THEN lineData.brushSize ELSE BrushSize]

\* the canvas after painting the lines of a history on a blank canvas
Render(history) == [i \in 1..Len(history) |-> drawLine(history[i])]

\* the app's socket.emit('draw', data): the event goes on the wire and is
\* recorded with the connection it went out on and, for a flush timer, the
\* connection that scheduled it.
EmitDraw(c, data, sched, flush) ==
    /\ toServer' = ClientEmit(toServer, c, Msg("draw", data, 0, link[c]))
    /\ emitted' = [emitted EXCEPT ![c] = Append(@, [data |-> data, sock |-> link[c], sched |-> sched, flush |-> flush])]

logError(log, type, sid) ==
    LET pushed == Append(log, [type |-> type, socketId |-> sid])
    IN  IF Len(pushed) > ErrorLogMax THEN Tail(pushed) ELSE pushed

\* setTimeout(cb, rem * 50): callbacks run in order of due time, and in
\* order of registration when due together
setTimeout_DueFirst(tms, t) ==
    SelectSeq(tms, LAMBDA x : x.rem < t.rem) \o <<t>> \o SelectSeq(tms, LAMBDA x : x.rem >= t.rem)

setTimeout(tms, t) ==
    SelectSeq(tms, LAMBDA x : x.rem <= t.rem) \o <<t>> \o SelectSeq(tms, LAMBDA x : x.rem > t.rem)

RECURSIVE ScheduleFrom(_, _, _, _)
ScheduleFrom(tms, buf, i, sid) ==
    IF i > Len(buf) THEN tms
    ELSE ScheduleFrom(setTimeout(tms, [data |-> buf[i], rem |-> i - 1, sched |-> sid]),
                      buf, i + 1, sid)

flushOfflineBuffer_KeepsBuffer(buf, connected, tms, sid) ==
    IF buf = <<>> \/ ~connected
    THEN [timers |-> tms, offlineBuffer |-> buf]
    ELSE [timers |-> ScheduleFrom(tms, buf, 1, sid), offlineBuffer |-> buf]

\* flushOfflineBuffer: the timers and the buffer it leaves
flushOfflineBuffer(buf, connected, tms, sid) ==
    IF buf = <<>> \/ ~connected
    THEN [timers |-> tms, offlineBuffer |-> buf]
    ELSE [timers |-> ScheduleFrom(tms, buf, 1, sid), offlineBuffer |-> <<>>]

ClientHas(c, type) ==
    /\ link[c] # 0
    /\ toClient[link[c]] # <<>>
    /\ Head(toClient[link[c]]).type = type

Consume(c) == toClient' = [toClient EXCEPT ![link[c]] = Tail(@)]

\* socket.on('connect').  The listeners the app registers on the socket for
\* 'reconnect', 'reconnection_attempt', 'reconnect_error' and
\* 'reconnect_failed' have no action here: the socket.io generation whose
\* Server class server.js imports emits the reconnection events on the
\* Manager, never on the socket, so a reconnection reaches the app as a
\* 'disconnect' followed by a new 'connect'.
OnConnect_KeepsFirstId(c) ==
    /\ ClientHas(c, "connect")
    /\ Consume(c)
    /\ sockConnected' = [sockConnected EXCEPT ![c] = TRUE]
    /\ isConnected' = [isConnected EXCEPT ![c] = TRUE]
    /\ isReconnecting' = [isReconnecting EXCEPT ![c] = FALSE]
    /\ socketId' = [socketId EXCEPT ![c] = IF @ = 0 THEN link[c] ELSE @]
    /\ reconnectAttempts' = [reconnectAttempts EXCEPT ![c] = 0]
    /\ toServer' = ClientEmit(toServer, c, Msg("get-user-count", NullData, 0, link[c]))
    /\ LET f == flushOfflineBuffer(offlineBuffer[c], TRUE, timers[c], link[c])
       IN  /\ timers' = [timers EXCEPT ![c] = f.timers]
           /\ offlineBuffer' = [offlineBuffer EXCEPT ![c] = f.offlineBuffer]
    /\ UNCHANGED inputs
    /\ UNCHANGED <<connectedUsers, owner, link, wantConn, onlineUsers, isDrawing, lastX,
                   linesDrawn, localHistory, errorLog, canvas, logVars, rmVars, extVars>>

OnConnect(c) ==
    /\ ClientHas(c, "connect")
    /\ Consume(c)
    /\ sockConnected' = [sockConnected EXCEPT ![c] = TRUE]
    /\ isConnected' = [isConnected EXCEPT ![c] = TRUE]
    /\ isReconnecting' = [isReconnecting EXCEPT ![c] = FALSE]
    /\ socketId' = [socketId EXCEPT ![c] = link[c]]
    /\ reconnectAttempts' = [reconnectAttempts EXCEPT ![c] = 0]
    /\ toServer' = ClientEmit(toServer, c, Msg("get-user-count", NullData, 0, link[c]))
    /\ LET f == flushOfflineBuffer(offlineBuffer[c], TRUE, timers[c], link[c])
       IN  /\ timers' = [timers EXCEPT ![c] = f.timers]
           /\ offlineBuffer' = [offlineBuffer EXCEPT ![c] = f.offlineBuffer]
    /\ UNCHANGED inputs
    /\ UNCHANGED <<connectedUsers, owner, link, wantConn, onlineUsers, isDrawing, lastX,
                   linesDrawn, localHistory, errorLog, canvas, logVars, rmVars, extVars>>

\* socket.on('disconnect', reason): events still on their way to the client
\* are lost with the connection
DisconnectReasons == {"transport close", "io server disconnect"}

OnDisconnect(c, reason) ==
    /\ sockConnected[c]
    /\ reason \in DisconnectReasons
    /\ reason = "io server disconnect" => link[c] \notin connectedUsers
    /\ sockConnected' = [sockConnected EXCEPT ![c] = FALSE]
    /\ toClient' = [toClient EXCEPT ![link[c]] = <<>>]
    /\ link' = [link EXCEPT ![c] = 0]
    /\ wantConn' = [wantConn EXCEPT ![c] = (reason # "io server disconnect")]
    /\ isConnected' = [isConnected EXCEPT ![c] = FALSE]
    /\ errorLog' = [errorLog EXCEPT ![c] = logError(@, "disconnect", socketId[c])]
    /\ inputs' = inputs + 1
    /\ UNCHANGED <<connectedUsers, owner, toServer, isReconnecting, socketId,
                   reconnectAttempts, onlineUsers, isDrawing, lastX, linesDrawn,
                   localHistory, offlineBuffer, canvas, timers, logVars, rmVars, extVars>>

\* socket.on('draw')
OnDraw(c) ==
    /\ ClientHas(c, "draw")
    /\ Consume(c)
    /\ canvas' = [canvas EXCEPT ![c] = Append(@, drawLine(Head(toClient[link[c]]).data))]
    /\ linesDrawn' = [linesDrawn EXCEPT ![c] = @ + 1]
    /\ UNCHANGED inputs
    /\ UNCHANGED <<connectedUsers, owner, link, wantConn, sockConnected, toServer,
                   isConnected, isReconnecting, socketId, reconnectAttempts, onlineUsers,
                   isDrawing, lastX, localHistory, offlineBuffer, errorLog, timers,
                   logVars, rmVars, extVars>>

\* socket.on('clear-canvas')
OnClearCanvas_CanvasOnly(c) ==
    /\ ClientHas(c, "clear-canvas")
    /\ Consume(c)
    /\ canvas' = [canvas EXCEPT ![c] = <<>>]
    /\ UNCHANGED localHistory
    /\ offlineBuffer' = [offlineBuffer EXCEPT ![c] = <<>>]
    /\ clearedAt' = [clearedAt EXCEPT ![c] = lastX[c]]
    /\ UNCHANGED inputs
    /\ UNCHANGED <<connectedUsers, owner, link, wantConn, sockConnected, toServer,
                   isConnected, isReconnecting, socketId, reconnectAttempts, onlineUsers,
                   isDrawing, lastX, linesDrawn, errorLog, timers, emitted, clearsIssued,
                   rawSent, invalidDraws, rmVars, extVars>>

OnClearCanvas(c) ==
    /\ ClientHas(c, "clear-canvas")
    /\ Consume(c)
    /\ canvas' = [canvas EXCEPT ![c] = <<>>]
    /\ localHistory' = [localHistory EXCEPT ![c] = <<>>]
    /\ offlineBuffer' = [offlineBuffer EXCEPT ![c] = <<>>]
    /\ clearedAt' = [clearedAt EXCEPT ![c] = lastX[c]]
    /\ UNCHANGED inputs
    /\ UNCHANGED <<connectedUsers, owner, link, wantConn, sockConnected, toServer,
                   isConnected, isReconnecting, socketId, reconnectAttempts, onlineUsers,
                   isDrawing, lastX, linesDrawn, errorLog, timers, emitted, clearsIssued,
                   rawSent, invalidDraws, rmVars, extVars>>

\* socket.on('user-count')
OnUserCount(c) ==
    /\ ClientHas(c, "user-count")
    /\ Consume(c)
    /\ onlineUsers' = [onlineUsers EXCEPT ![c] = Head(toClient[link[c]]).n]
    /\ UNCHANGED inputs
    /\ UNCHANGED <<connectedUsers, owner, link, wantConn, sockConnected, toServer,
                   isConnected, isReconnecting, socketId, reconnectAttempts,
                   isDrawing, lastX, linesDrawn, localHistory, offlineBuffer, errorLog,
                   canvas, timers, logVars, rmVars, extVars>>

\* 'welcome' has no listener in the app: the event is dropped on arrival
OnWelcome(c) ==
    /\ ClientHas(c, "welcome")
    /\ Consume(c)
    /\ UNCHANGED inputs
    /\ UNCHANGED <<connectedUsers, owner, link, wantConn, sockConnected, toServer,
                   appVars, logVars, rmVars, extVars>>

\* startDrawing (mousedown): the pointer is where the last sample left it
startDrawing_NoGuard(c) ==
    /\ ~isDrawing[c]
    /\ isDrawing' = [isDrawing EXCEPT ![c] = TRUE]
    /\ inputs' = inputs + 1
    /\ UNCHANGED <<netVars, isConnected, isReconnecting, socketId, reconnectAttempts,
                   onlineUsers, lastX, linesDrawn, localHistory, offlineBuffer, errorLog,
                   canvas, timers, logVars, rmVars, extVars>>

startDrawing(c) ==
    /\ ~isDrawing[c]
    /\ IF ~isConnected[c] /\ Len(offlineBuffer[c]) > OfflineBufferLimit
       THEN UNCHANGED isDrawing
       ELSE isDrawing' = [isDrawing EXCEPT ![c] = TRUE]
    /\ inputs' = inputs + 1
    /\ UNCHANGED <<netVars, isConnected, isReconnecting, socketId, reconnectAttempts,
                   onlineUsers, lastX, linesDrawn, localHistory, offlineBuffer, errorLog,
                   canvas, timers, logVars, rmVars, extVars>>

\* the segment draw() builds for the next pointer sample: the pointer of
\* client c moves one unit to the right on row c, and Date.now() ticks once
\* per sample
NextLine(c) ==
    LineData(Num(lastX[c]), Num(c), Num(lastX[c] + 1), Num(c), CurrentColor, BrushSize,
             Num(lastX[c] + 1))

\* draw (mousemove)
draw_SocketOnly(c) ==
    /\ isDrawing[c]
    /\ LET lineData == NextLine(c)
       IN  /\ canvas' = [canvas EXCEPT ![c] = Append(@, drawLine(lineData))]
           /\ localHistory' = [localHistory EXCEPT ![c] = Append(@, lineData)]
           /\ EmitDraw(c, lineData, link[c], FALSE)
           /\ UNCHANGED offlineBuffer
    /\ linesDrawn' = [linesDrawn EXCEPT ![c] = @ + 1]
    /\ lastX' = [lastX EXCEPT ![c] = @ + 1]
    /\ inputs' = inputs + 1
    /\ UNCHANGED <<connectedUsers, owner, link, wantConn, sockConnected, toClient,
                   isConnected, isReconnecting, socketId, reconnectAttempts, onlineUsers,
                   isDrawing, errorLog, timers, clearsIssued, clearedAt, rawSent, invalidDraws, rmVars, extVars>>

draw(c) ==
    /\ isDrawing[c]
    /\ LET lineData == NextLine(c)
       IN  /\ canvas' = [canvas EXCEPT ![c] = Append(@, drawLine(lineData))]
           /\ localHistory' = [localHistory EXCEPT ![c] = Append(@, lineData)]
           /\ IF isConnected[c]
              THEN /\ EmitDraw(c, lineData, link[c], FALSE)
                   /\ UNCHANGED offlineBuffer
              ELSE /\ offlineBuffer' = [offlineBuffer EXCEPT ![c] = Append(@, lineData)]
                   /\ UNCHANGED <<toServer, emitted>>
    /\ linesDrawn' = [linesDrawn EXCEPT ![c] = @ + 1]
    /\ lastX' = [lastX EXCEPT ![c] = @ + 1]
    /\ inputs' = inputs + 1
    /\ UNCHANGED <<connectedUsers, owner, link, wantConn, sockConnected, toClient,
                   isConnected, isReconnecting, socketId, reconnectAttempts, onlineUsers,
                   isDrawing, errorLog, timers, clearsIssued, clearedAt, rawSent, invalidDraws, rmVars, extVars>>

\* stopDrawing (mouseup / mouseout)
stopDrawing(c) ==
    /\ isDrawing[c]
    /\ isDrawing' = [isDrawing EXCEPT ![c] = FALSE]
    /\ inputs' = inputs + 1
    /\ UNCHANGED <<netVars, isConnected, isReconnecting, socketId, reconnectAttempts,
                   onlineUsers, lastX, linesDrawn, localHistory, offlineBuffer, errorLog,
                   canvas, timers, logVars, rmVars, extVars>>

\* handleTouchStart (touchstart): the same guard, then startDrawing with the
\* first touch point
handleTouchStart(c) ==
    IF ~isConnected[c] /\ Len(offlineBuffer[c]) > OfflineBufferLimit
    THEN /\ ~isDrawing[c]
         /\ inputs' = inputs + 1
         /\ UNCHANGED <<netVars, appVars, logVars, rmVars, extVars>>
    ELSE startDrawing(c)

RECURSIVE SumTo(_, _)
SumTo(f, n) == IF n = 0 THEN 0 ELSE f[n] + SumTo(f, n - 1)
TotalClears == SumTo(clearsIssued, NumClients)

WipeLocal(c) ==
    /\ canvas' = [canvas EXCEPT ![c] = <<>>]
    /\ localHistory' = [localHistory EXCEPT ![c] = <<>>]
    /\ offlineBuffer' = [offlineBuffer EXCEPT ![c] = <<>>]
    /\ linesDrawn' = [linesDrawn EXCEPT ![c] = 0]
    /\ clearedAt' = [clearedAt EXCEPT ![c] = lastX[c]]

\* handleClearCanvas; confirmed is the user's answer to confirm()
handleClearCanvas_KeepsBuffer(c, confirmed) ==
    /\ IF ~isConnected[c] /\ Len(offlineBuffer[c]) > 0
       THEN /\ IF confirmed
               THEN /\ canvas' = [canvas EXCEPT ![c] = <<>>]
                    /\ localHistory' = [localHistory EXCEPT ![c] = <<>>]
                    /\ linesDrawn' = [linesDrawn EXCEPT ![c] = 0]
                    /\ clearedAt' = [clearedAt EXCEPT ![c] = lastX[c]]
                    /\ UNCHANGED offlineBuffer
               ELSE UNCHANGED <<canvas, localHistory, offlineBuffer, linesDrawn, clearedAt>>
            /\ UNCHANGED <<toServer, clearsIssued>>
       ELSE IF ~isConnected[c]
       THEN UNCHANGED <<canvas, localHistory, offlineBuffer, linesDrawn, clearedAt, toServer, clearsIssued>>
       ELSE IF confirmed
       THEN /\ TotalClears < MaxClears
            /\ WipeLocal(c)
            /\ toServer' = ClientEmit(toServer, c, Msg("clear-canvas", NullData, 0, link[c]))
            /\ clearsIssued' = [clearsIssued EXCEPT ![c] = @ + 1]
       ELSE UNCHANGED <<canvas, localHistory, offlineBuffer, linesDrawn, clearedAt, toServer, clearsIssued>>
    /\ inputs' = inputs + 1
    /\ UNCHANGED <<connectedUsers, owner, link, wantConn, sockConnected, toClient,
                   isConnected, isReconnecting, socketId, reconnectAttempts, onlineUsers,
                   isDrawing, lastX, errorLog, timers, emitted, rawSent, invalidDraws, rmVars, extVars>>

handleClearCanvas(c, confirmed) ==
    /\ IF ~isConnected[c] /\ Len(offlineBuffer[c]) > 0
       THEN /\ IF confirmed
               THEN WipeLocal(c)
               ELSE UNCHANGED <<canvas, localHistory, offlineBuffer, linesDrawn, clearedAt>>
            /\ UNCHANGED <<toServer, clearsIssued>>
       ELSE IF ~isConnected[c]
       THEN UNCHANGED <<canvas, localHistory, offlineBuffer, linesDrawn, clearedAt, toServer, clearsIssued>>
       ELSE IF confirmed
       THEN /\ TotalClears < MaxClears
            /\ WipeLocal(c)
            /\ toServer' = ClientEmit(toServer, c, Msg("clear-canvas", NullData, 0, link[c]))
            /\ clearsIssued' = [clearsIssued EXCEPT ![c] = @ + 1]
       ELSE UNCHANGED <<canvas, localHistory, offlineBuffer, linesDrawn, clearedAt, toServer, clearsIssued>>
    /\ inputs' = inputs + 1
    /\ UNCHANGED <<connectedUsers, owner, link, wantConn, sockConnected, toClient,
                   isConnected, isReconnecting, socketId, reconnectAttempts, onlineUsers,
                   isDrawing, lastX, errorLog, timers, emitted, rawSent, invalidDraws, rmVars, extVars>>

Front(s) == SubSeq(s, 1, Len(s) - 1)

\* handleUndo
handleUndo_KeepsBuffer(c) ==
    /\ IF Len(localHistory[c]) = 0
       THEN UNCHANGED <<localHistory, offlineBuffer, canvas>>
       ELSE /\ localHistory' = [localHistory EXCEPT ![c] = Front(@)]
            /\ UNCHANGED offlineBuffer
            /\ canvas' = [canvas EXCEPT ![c] = Render(localHistory'[c])]
    /\ inputs' = inputs + 1
    /\ UNCHANGED <<netVars, isConnected, isReconnecting, socketId, reconnectAttempts,
                   onlineUsers, isDrawing, lastX, linesDrawn, errorLog, timers,
                   logVars, rmVars, extVars>>

handleUndo_NoRedraw(c) ==
    /\ IF Len(localHistory[c]) = 0
       THEN UNCHANGED <<localHistory, offlineBuffer, canvas>>
       ELSE /\ localHistory' = [localHistory EXCEPT ![c] = Front(@)]
            /\ offlineBuffer' = [offlineBuffer EXCEPT ![c] = IF Len(@) > 0 THEN Front(@) ELSE @]
            /\ UNCHANGED canvas
    /\ inputs' = inputs + 1
    /\ UNCHANGED <<netVars, isConnected, isReconnecting, socketId, reconnectAttempts,
                   onlineUsers, isDrawing, lastX, linesDrawn, errorLog, timers,
                   logVars, rmVars, extVars>>

handleUndo_HistoryOnly(c) ==
    /\ IF Len(localHistory[c]) = 0
       THEN UNCHANGED <<localHistory, offlineBuffer, canvas>>
       ELSE /\ localHistory' = [localHistory EXCEPT ![c] = Front(@)]
            /\ UNCHANGED offlineBuffer
            /\ canvas' = [canvas EXCEPT ![c] = Render(localHistory'[c])]
    /\ inputs' = inputs + 1
    /\ UNCHANGED <<netVars, isConnected, isReconnecting, socketId, reconnectAttempts,
                   onlineUsers, isDrawing, lastX, linesDrawn, errorLog, timers,
                   logVars, rmVars, extVars>>

handleUndo(c) ==
    /\ IF Len(localHistory[c]) = 0
       THEN UNCHANGED <<localHistory, offlineBuffer, canvas>>
       ELSE /\ localHistory' = [localHistory EXCEPT ![c] = Front(@)]
            /\ offlineBuffer' = [offlineBuffer EXCEPT ![c] = IF Len(@) > 0 THEN Front(@) ELSE @]
            /\ canvas' = [canvas EXCEPT ![c] = Render(localHistory'[c])]
    /\ inputs' = inputs + 1
    /\ UNCHANGED <<netVars, isConnected, isReconnecting, socketId, reconnectAttempts,
                   onlineUsers, isDrawing, lastX, linesDrawn, errorLog, timers,
                   logVars, rmVars, extVars>>

\* a flush timer comes due: the callback of flushOfflineBuffer's setTimeout
TimerFire(c) ==
    /\ timers[c] # <<>>
    /\ Head(timers[c]).rem = 0
    /\ timers' = [timers EXCEPT ![c] = Tail(@)]
    /\ IF isConnected[c]
       THEN EmitDraw(c, Head(timers[c]).data, Head(timers[c]).sched, TRUE)
       ELSE UNCHANGED <<toServer, emitted>>
    /\ UNCHANGED inputs
    /\ UNCHANGED <<connectedUsers, owner, link, wantConn, sockConnected, toClient,
                   isConnected, isReconnecting, socketId, reconnectAttempts, onlineUsers,
                   isDrawing, lastX, linesDrawn, localHistory, offlineBuffer, errorLog,
                   canvas, clearsIssued, clearedAt, rawSent, invalidDraws, rmVars, extVars>>

\* 50 ms pass on client c with no timer due
Tick(c) ==
    /\ timers[c] # <<>>
    /\ Head(timers[c]).rem > 0
    /\ timers' = [timers EXCEPT ![c] = [i \in 1..Len(@) |-> [@[i] EXCEPT !.rem = @ - 1]]]
    /\ UNCHANGED inputs
    /\ UNCHANGED <<netVars, isConnected, isReconnecting, socketId, reconnectAttempts,
                   onlineUsers, isDrawing, lastX, linesDrawn, localHistory, offlineBuffer,
                   errorLog, canvas, logVars, rmVars, extVars>>

\* manualReconnect (public API): socket.connect() when the socket is down;
\* the returned boolean is kept in reconnectResult
manualReconnect_Always(c) ==
    /\ wantConn' = [wantConn EXCEPT ![c] = TRUE]
    /\ reconnectResult' = [reconnectResult EXCEPT ![c] = "true"]
    /\ inputs' = inputs + 1
    /\ UNCHANGED <<connectedUsers, owner, link, sockConnected, toServer, toClient,
                   appVars, logVars, rmVars, valVars, smVars, thVars, stVars>>

manualReconnect(c) ==
    /\ IF ~sockConnected[c]
       THEN /\ wantConn' = [wantConn EXCEPT ![c] = TRUE]
            /\ reconnectResult' = [reconnectResult EXCEPT ![c] = "true"]
       ELSE /\ UNCHANGED wantConn
            /\ reconnectResult' = [reconnectResult EXCEPT ![c] = "false"]
    /\ inputs' = inputs + 1
    /\ UNCHANGED <<connectedUsers, owner, link, sockConnected, toServer, toClient,
                   appVars, logVars, rmVars, valVars, smVars, thVars, stVars>>

\* a connected socket emits a draw event with an arbitrary payload, as the
\* integration tests do with a bare socket.io client
RawEmitDraw(c, payload) ==
    /\ sockConnected[c]
    /\ rawSent < MaxRaw
    /\ payload \in RawPayloads
    /\ rawSent' = rawSent + 1
    /\ toServer' = ClientEmit(toServer, c, Msg("draw", payload, 0, link[c]))
    /\ inputs' = inputs + 1
    /\ UNCHANGED <<connectedUsers, owner, link, wantConn, sockConnected, toClient,
                   appVars, emitted, clearsIssued, clearedAt, invalidDraws, rmVars, extVars>>

(***************************************************************************)
(* Reconnection manager (createReconnectionManager in the error-handling   *)
(* tests): attemptReconnect is called on each connection failure, reset on *)
(* a successful connect.  rmLog records the results of the calls.          *)
(***************************************************************************)
Min(a, b) == IF a <= b THEN a ELSE b

backoffDelay_Uncapped(attempt) == baseDelay * attempt

backoffDelay(attempt) == baseDelay * Min(attempt, BackoffCapFactor)

attemptReconnect_NoLimit ==
    /\ Len(rmLog) < MaxCalls
    /\ rmAttempts' = rmAttempts + 1
    /\ rmLog' = Append(rmLog, [op |-> "attempt", shouldRetry |-> TRUE,
                               delay |-> backoffDelay(rmAttempts + 1),
                               attempt |-> rmAttempts + 1])
    /\ UNCHANGED inputs
    /\ UNCHANGED <<netVars, appVars, logVars, extVars>>

attemptReconnect ==
    /\ Len(rmLog) < MaxCalls
    /\ IF rmAttempts < maxAttempts
       THEN /\ rmAttempts' = rmAttempts + 1
            /\ rmLog' = Append(rmLog, [op |-> "attempt", shouldRetry |-> TRUE,
                                       delay |-> backoffDelay(rmAttempts + 1),
                                       attempt |-> rmAttempts + 1])
       ELSE /\ rmAttempts' = rmAttempts
            /\ rmLog' = Append(rmLog, [op |-> "attempt", shouldRetry |-> FALSE,
                                       delay |-> 0, attempt |-> rmAttempts])
    /\ UNCHANGED inputs
    /\ UNCHANGED <<netVars, appVars, logVars, extVars>>

reset ==
    /\ Len(rmLog) < MaxCalls
    /\ rmAttempts' = 0
    /\ rmLog' = Append(rmLog, [op |-> "reset", shouldRetry |-> FALSE, delay |-> 0, attempt |-> 0])
    /\ UNCHANGED inputs
    /\ UNCHANGED <<netVars, appVars, logVars, extVars>>

(***************************************************************************)
(* Specifications.  Each one bounds the number of user and environment     *)
(* events (connection attempts, connection losses, pointer and button      *)
(* events, raw emits); what the server and the sockets do with them is not *)
(* bounded.                                                                *)
(***************************************************************************)
ServerHandles ==
    \/ \E s \in SocketIds : ServerDraw(s)
    \/ \E s \in SocketIds : ServerClearCanvas(s)
    \/ \E s \in SocketIds : ServerGetUserCount(s)

SocketHandles(c) ==
    \/ OnConnect(c)
    \/ OnDraw(c)
    \/ OnClearCanvas(c)
    \/ OnUserCount(c)
    \/ OnWelcome(c)

\* relay: the server and every client's socket; draw events are put on the
\* wire with arbitrary payloads, clears come from the app's clear button
RelayInput ==
    \/ \E c \in Clients : ServerConnection(c)
    \/ \E s \in SocketIds : ServerDisconnect(s)
    \/ \E c \in Clients, reason \in DisconnectReasons : OnDisconnect(c, reason)
    \/ \E c \in Clients : handleClearCanvas(c, TRUE)
    \/ \E c \in Clients, payload \in RawPayloads : RawEmitDraw(c, payload)

Next ==
    \/ ServerHandles
    \/ \E c \in Clients : SocketHandles(c)
    \/ inputs < MaxInputs /\ RelayInput

Spec == Init /\ [][Next]_vars

\* shared board: every client connects, and once all are connected they
\* draw and clear
AllConnected == \A c \in Clients : isConnected[c]

BoardInput ==
    \/ \E c \in Clients : ServerConnection(c)
    \/ AllConnected /\ \E c \in Clients : startDrawing(c)
    \/ AllConnected /\ \E c \in Clients : lastX[c] < MaxSamples /\ draw(c)
    \/ AllConnected /\ \E c \in Clients : handleClearCanvas(c, TRUE)

NextBoard ==
    \/ ServerHandles
    \/ \E c \in Clients : SocketHandles(c)
    \/ inputs < MaxBoardInputs /\ BoardInput

SpecBoard == Init /\ [][NextBoard]_vars

\* one client with every user operation
TheClient == CHOOSE c \in Clients : \A d \in Clients : c <= d

AppInput ==
    \/ ServerConnection(TheClient)
    \/ \E s \in SocketIds : ServerDisconnect(s)
    \/ \E reason \in DisconnectReasons : OnDisconnect(TheClient, reason)
    \/ startDrawing(TheClient)
    \/ lastX[TheClient] < MaxSamples /\ draw(TheClient)
    \/ stopDrawing(TheClient)
    \/ \E confirmed \in BOOLEAN : handleClearCanvas(TheClient, confirmed)
    \/ handleUndo(TheClient)
    \/ manualReconnect(TheClient)

NextApp ==
    \/ ServerHandles
    \/ SocketHandles(TheClient)
    \/ TimerFire(TheClient)
    \/ Tick(TheClient)
    \/ inputs < MaxAppInputs /\ AppInput

SpecApp == Init /\ [][NextApp]_vars

\* remote clear: every client connects; TheClient draws and the other
\* clients clear the board
RemoteClearInput ==
    \/ \E c \in Clients : ServerConnection(c)
    \/ startDrawing(TheClient)
    \/ lastX[TheClient] < MaxSamples /\ draw(TheClient)
    \/ AllConnected /\ \E c \in Clients \ {TheClient} : handleClearCanvas(c, TRUE)

NextRemoteClear ==
    \/ ServerHandles
    \/ \E c \in Clients : SocketHandles(c)
    \/ inputs < MaxRemoteInputs /\ RemoteClearInput

SpecRemoteClear == Init /\ [][NextRemoteClear]_vars

\* capacity guard: one WhiteboardApp that never gets a connection and keeps
\* drawing until its offline buffer is past the limit
GuardInput ==
    \/ startDrawing(TheClient)
    \/ handleTouchStart(TheClient)
    \/ lastX[TheClient] < OfflineBufferLimit + MaxOverflow /\ draw(TheClient)
    \/ stopDrawing(TheClient)

NextGuard == inputs < OfflineBufferLimit + MaxGuardInputs /\ GuardInput

SpecGuard == Init /\ [][NextGuard]_vars

\* isValidDrawData called on one payload
Validate ==
    /\ vResult = "none"
    /\ vResult' = IF isValidDrawData(vData) THEN "true" ELSE "false"
    /\ UNCHANGED <<netVars, appVars, logVars, inputs, rmVars, vData, reconnectResult,
                   smVars, thVars, stVars>>

InitValidate ==
    /\ InitWhiteboard
    /\ InitSocketManager
    /\ InitThrottled
    /\ InitStateManager
    /\ vData \in ValidatorPayloads
    /\ vResult = "none"

SpecValidate == InitValidate /\ [][Validate]_vars

(***************************************************************************)
(* SocketManager (modular client).  The handlers run on the events of one  *)
(* socket; StateManager holds the state they update.  smUp is the socket's *)
(* own `connected` flag, smEmitted the events handed to socket.emit.       *)
(***************************************************************************)
smOthers == <<netVars, appVars, logVars, rmVars, valVars, reconnectResult, thVars, stVars,
             smIsDrawing>>

\* reasons socket.io passes to the 'disconnect' listeners
SocketDisconnectReasons ==
    {"io server disconnect", "io client disconnect", "ping timeout",
     "transport close", "transport error"}

\* StateManager.addToHistory
addToHistory(h, lineData) ==
    LET pushed == Append(h, lineData)
    IN  IF Len(pushed) > MAX_HISTORY_SIZE
        THEN SubSeq(pushed, Len(pushed) - MAX_HISTORY_SIZE + 1, Len(pushed))
        ELSE pushed

\* StateManager.logError
smLogError(log, type, message) ==
    LET pushed == Append(log, [type |-> type, message |-> message,
                               socketId |-> smSocketId])
    IN  IF Len(pushed) > MAX_ERROR_LOG_SIZE
        THEN SubSeq(pushed, Len(pushed) - MAX_ERROR_LOG_SIZE + 1, Len(pushed))
        ELSE pushed

\* the events flushOfflineBuffer hands to emitDraw, in buffer order
smDrawEvents(buffer) ==
    [i \in 1..Len(buffer) |-> [type |-> "draw", line |-> buffer[i]]]

smOnConnect_KeepsReconnecting(id) ==
    /\ ~smUp
    /\ smUp' = TRUE
    /\ smIsConnected' = TRUE
    /\ smSocketId' = id
    /\ smEmitted' = smEmitted \o smDrawEvents(smOfflineBuffer)
    /\ smOfflineBuffer' = <<>>
    /\ inputs' = inputs + 1
    /\ UNCHANGED <<smIsReconnecting, smLocalHistory, smLinesDrawn, smErrorLog, smNextLine,
                   smOthers>>

\* onConnect: state update, then flushOfflineBuffer (isConnected is already
\* true, so emitDraw emits every buffered line) and clearOfflineBuffer
smOnConnect(id) ==
    /\ ~smUp
    /\ smUp' = TRUE
    /\ smIsConnected' = TRUE
    /\ smSocketId' = id
    /\ smIsReconnecting' = FALSE
    /\ smEmitted' = smEmitted \o smDrawEvents(smOfflineBuffer)
    /\ smOfflineBuffer' = <<>>
    /\ inputs' = inputs + 1
    /\ UNCHANGED <<smLocalHistory, smLinesDrawn, smErrorLog, smNextLine, smOthers>>

\* onDisconnect(reason)
smOnDisconnect(reason) ==
    /\ smUp
    /\ smUp' = FALSE
    /\ smIsConnected' = FALSE
    /\ smIsReconnecting' = (reason = "io server disconnect" \/ reason = "transport close")
    /\ smErrorLog' = smLogError(smErrorLog, "socket_disconnect", reason)
    /\ inputs' = inputs + 1
    /\ UNCHANGED <<smSocketId, smOfflineBuffer, smLocalHistory, smLinesDrawn,
                   smEmitted, smNextLine, smOthers>>

\* onConnectError
smOnConnectError ==
    /\ ~smUp
    /\ smErrorLog' = smLogError(smErrorLog, "socket_connect_error", "error")
    /\ inputs' = inputs + 1
    /\ UNCHANGED <<smUp, smIsConnected, smIsReconnecting, smSocketId, smOfflineBuffer,
                   smLocalHistory, smLinesDrawn, smEmitted, smNextLine, smOthers>>

\* a segment drawn by another client, as the server relays it
RemoteLine == 0

\* CanvasManager.drawLine: it paints the line and adds it to the history
smDrawLine(h, lineData) == addToHistory(h, lineData)

\* onDraw: a draw event relayed by the server; incrementLinesDrawn, then the
\* draw callback of setupModuleCommunication, canvas.drawLine
smOnDraw ==
    /\ smUp
    /\ smLinesDrawn' = smLinesDrawn + 1
    /\ smLocalHistory' = smDrawLine(smLocalHistory, RemoteLine)
    /\ inputs' = inputs + 1
    /\ UNCHANGED <<smUp, smIsConnected, smIsReconnecting, smSocketId, smOfflineBuffer,
                   smErrorLog, smEmitted, smNextLine, smOthers>>

\* onClearCanvas: a clear-canvas event relayed by the server
smOnClearCanvas ==
    /\ smUp
    /\ smLocalHistory' = <<>>
    /\ smLinesDrawn' = 0
    /\ inputs' = inputs + 1
    /\ UNCHANGED <<smUp, smIsConnected, smIsReconnecting, smSocketId, smOfflineBuffer,
                   smErrorLog, smEmitted, smNextLine, smOthers>>

\* CanvasManager.handleMouseDown
smHandleMouseDown ==
    /\ smIsDrawing' = TRUE
    /\ inputs' = inputs + 1
    /\ UNCHANGED <<smUp, smIsConnected, smIsReconnecting, smSocketId, smOfflineBuffer,
                   smLocalHistory, smLinesDrawn, smErrorLog, smEmitted, smNextLine,
                   netVars, appVars, logVars, rmVars, valVars, reconnectResult, thVars,
                   stVars>>

\* CanvasManager.handleMouseUp (mouseup / mouseout)
smHandleMouseUp ==
    /\ smIsDrawing' = FALSE
    /\ inputs' = inputs + 1
    /\ UNCHANGED <<smUp, smIsConnected, smIsReconnecting, smSocketId, smOfflineBuffer,
                   smLocalHistory, smLinesDrawn, smErrorLog, smEmitted, smNextLine,
                   netVars, appVars, logVars, rmVars, valVars, reconnectResult, thVars,
                   stVars>>

\* the draw callback of setupModuleCommunication: addToHistory, then emitDraw
\* or addToOfflineBuffer
smOnDrawCallback(h, lineData) ==
    [localHistory |-> addToHistory(h, lineData),
     emitted |-> IF smIsConnected
                 THEN Append(smEmitted, [type |-> "draw", line |-> lineData])
                 ELSE smEmitted,
     offlineBuffer |-> IF smIsConnected
                       THEN smOfflineBuffer
                       ELSE Append(smOfflineBuffer, lineData)]

\* CanvasManager.handleMouseMove, one pointer-move sample of a stroke:
\* drawLine, incrementLinesDrawn, then the draw callback
smLocalDraw ==
    /\ smIsDrawing
    /\ LET cb == smOnDrawCallback(smDrawLine(smLocalHistory, smNextLine), smNextLine)
       IN  /\ smLocalHistory' = cb.localHistory
           /\ smEmitted' = cb.emitted
           /\ smOfflineBuffer' = cb.offlineBuffer
    /\ smLinesDrawn' = smLinesDrawn + 1
    /\ smNextLine' = smNextLine + 1
    /\ inputs' = inputs + 1
    /\ UNCHANGED <<smUp, smIsConnected, smIsReconnecting, smSocketId, smErrorLog, smOthers>>

\* emitClearCanvas, called by the clear button
smEmitClearCanvas ==
    /\ IF smIsConnected
       THEN smEmitted' = Append(smEmitted, [type |-> "clear-canvas", line |-> 0])
       ELSE UNCHANGED smEmitted
    /\ inputs' = inputs + 1
    /\ UNCHANGED <<smUp, smIsConnected, smIsReconnecting, smSocketId, smOfflineBuffer,
                   smLocalHistory, smLinesDrawn, smErrorLog, smNextLine, smOthers>>

SocketManagerInput ==
    \/ \E id \in SocketIds \ {smSocketId} : smOnConnect(id)
    \/ \E reason \in SocketDisconnectReasons : smOnDisconnect(reason)
    \/ smOnConnectError
    \/ smOnDraw
    \/ smOnClearCanvas
    \/ smHandleMouseDown
    \/ smLocalDraw
    \/ smHandleMouseUp
    \/ smEmitClearCanvas

NextSocketManager == inputs < MaxManagerInputs /\ SocketManagerInput

SpecSocketManager == Init /\ [][NextSocketManager]_vars

(***************************************************************************)
(* Throttled WhiteboardApp: the draw pipeline with its clock.  A segment   *)
(* is the record of one draw() call: the stroke it belongs to and the      *)
(* value of Date.now() it read.  thEmitted lists the draw events handed to *)
(* socket.emit, each marked with who emitted it (draw or a flush timer)    *)
(* and with the throttle delay in force at that moment.                    *)
(***************************************************************************)
thLocal == <<thLinesDrawn, thCanvas>>
thOthers == <<netVars, appVars, logVars, rmVars, valVars, reconnectResult, smVars,
             stVars>>

\* clock steps between two events, and the delays handed to setThrottleDelay
TickSteps == {1, 24, 25}
DelayInputs == {10, 25, throttleDelay}

thEmission(by, lineData) ==
    [by |-> by, stroke |-> lineData.stroke, time |-> thNow,
     sampled |-> lineData.time, delay |-> thThrottleDelay]

\* time passes
thTick(d) ==
    /\ thNow + d <= Epoch + MaxElapsed
    /\ thNow' = thNow + d
    /\ inputs' = inputs + 1
    /\ UNCHANGED <<thIsConnected, thIsDrawing, thLastEmitTime, thThrottleDelay,
                   thLocalHistory, thOfflineBuffer, thTimers, thEmitted, thStroke,
                   thLocal, thOthers>>

\* socket.on('connect'): state update, then flushOfflineBuffer schedules one
\* timer per buffered segment, index * 50 ms from now, and empties the buffer
thOnConnect ==
    /\ ~thIsConnected
    /\ thIsConnected' = TRUE
    /\ thTimers' = thTimers \o
           [i \in 1..Len(thOfflineBuffer) |->
               [data |-> thOfflineBuffer[i], due |-> thNow + (i - 1) * 50]]
    /\ thOfflineBuffer' = <<>>
    /\ inputs' = inputs + 1
    /\ UNCHANGED <<thNow, thIsDrawing, thLastEmitTime, thThrottleDelay, thLocalHistory,
                   thEmitted, thStroke, thLocal, thOthers>>

\* socket.on('disconnect')
thOnDisconnect ==
    /\ thIsConnected
    /\ thIsConnected' = FALSE
    /\ inputs' = inputs + 1
    /\ UNCHANGED <<thNow, thIsDrawing, thLastEmitTime, thThrottleDelay, thLocalHistory,
                   thOfflineBuffer, thTimers, thEmitted, thStroke, thLocal, thOthers>>

\* a setTimeout callback of flushOfflineBuffer runs
thFlushTimer ==
    /\ thTimers # <<>>
    /\ \E i \in 1..Len(thTimers) :
          /\ \A j \in 1..Len(thTimers) : thTimers[i].due <= thTimers[j].due
          /\ \A j \in 1..(i - 1) : thTimers[j].due > thTimers[i].due
          /\ thTimers[i].due <= thNow
          /\ thTimers' = [j \in 1..(Len(thTimers) - 1) |->
                             IF j < i THEN thTimers[j] ELSE thTimers[j + 1]]
          /\ thEmitted' = IF thIsConnected
                          THEN Append(thEmitted, thEmission("flush", thTimers[i].data))
                          ELSE thEmitted
    /\ UNCHANGED <<thNow, thIsConnected, thIsDrawing, thLastEmitTime, thThrottleDelay,
                   thLocalHistory, thOfflineBuffer, thStroke, inputs, thLocal, thOthers>>

thStartDrawing_NoReset ==
    /\ IF ~thIsConnected /\ Len(thOfflineBuffer) > OfflineBufferLimit
       THEN UNCHANGED <<thIsDrawing, thLastEmitTime, thStroke>>
       ELSE /\ thIsDrawing' = TRUE
            /\ thStroke' = thStroke + 1
            /\ UNCHANGED thLastEmitTime
    /\ inputs' = inputs + 1
    /\ UNCHANGED <<thNow, thIsConnected, thThrottleDelay, thLocalHistory, thOfflineBuffer,
                   thTimers, thEmitted, thLocal, thOthers>>

\* startDrawing (mousedown)
thStartDrawing ==
    /\ IF ~thIsConnected /\ Len(thOfflineBuffer) > OfflineBufferLimit
       THEN UNCHANGED <<thIsDrawing, thLastEmitTime, thStroke>>
       ELSE /\ thIsDrawing' = TRUE
            /\ thLastEmitTime' = 0
            /\ thStroke' = thStroke + 1
    /\ inputs' = inputs + 1
    /\ UNCHANGED <<thNow, thIsConnected, thThrottleDelay, thLocalHistory, thOfflineBuffer,
                   thTimers, thEmitted, thLocal, thOthers>>

thDraw_ThrottlesLocal ==
    /\ thIsDrawing
    /\ LET currentTime == thNow
           lineData == [stroke |-> thStroke, time |-> currentTime]
       IN  IF thIsConnected
           THEN /\ IF currentTime - thLastEmitTime >= thThrottleDelay
                   THEN /\ thEmitted' = Append(thEmitted, thEmission("draw", lineData))
                        /\ thLastEmitTime' = currentTime
                        /\ thCanvas' = Append(thCanvas, lineData)
                        /\ thLocalHistory' = Append(thLocalHistory, lineData)
                        /\ thLinesDrawn' = thLinesDrawn + 1
                   ELSE UNCHANGED <<thEmitted, thLastEmitTime, thCanvas, thLocalHistory,
                                    thLinesDrawn>>
                /\ UNCHANGED thOfflineBuffer
           ELSE /\ thOfflineBuffer' = Append(thOfflineBuffer, lineData)
                /\ thCanvas' = Append(thCanvas, lineData)
                /\ thLocalHistory' = Append(thLocalHistory, lineData)
                /\ thLinesDrawn' = thLinesDrawn + 1
                /\ UNCHANGED <<thEmitted, thLastEmitTime>>
    /\ inputs' = inputs + 1
    /\ UNCHANGED <<thNow, thIsConnected, thIsDrawing, thThrottleDelay, thTimers, thStroke,
                   thOthers>>

thDraw_Unthrottled ==
    /\ thIsDrawing
    /\ LET lineData == [stroke |-> thStroke, time |-> thNow]
       IN  /\ thCanvas' = Append(thCanvas, lineData)
           /\ thLocalHistory' = Append(thLocalHistory, lineData)
           /\ IF thIsConnected
              THEN /\ thEmitted' = Append(thEmitted, thEmission("draw", lineData))
                   /\ thLastEmitTime' = thNow
                   /\ UNCHANGED thOfflineBuffer
              ELSE /\ thOfflineBuffer' = Append(thOfflineBuffer, lineData)
                   /\ UNCHANGED <<thEmitted, thLastEmitTime>>
    /\ thLinesDrawn' = thLinesDrawn + 1
    /\ inputs' = inputs + 1
    /\ UNCHANGED <<thNow, thIsConnected, thIsDrawing, thThrottleDelay, thTimers, thStroke,
                   thOthers>>

\* draw (mousemove)
thDraw ==
    /\ thIsDrawing
    /\ LET currentTime == thNow
           lineData == [stroke |-> thStroke, time |-> currentTime]
       IN  /\ thCanvas' = Append(thCanvas, lineData)
           /\ thLocalHistory' = Append(thLocalHistory, lineData)
           /\ IF thIsConnected
              THEN /\ IF currentTime - thLastEmitTime >= thThrottleDelay
                      THEN /\ thEmitted' = Append(thEmitted, thEmission("draw", lineData))
                           /\ thLastEmitTime' = currentTime
                      ELSE UNCHANGED <<thEmitted, thLastEmitTime>>
                   /\ UNCHANGED thOfflineBuffer
              ELSE /\ thOfflineBuffer' = Append(thOfflineBuffer, lineData)
                   /\ UNCHANGED <<thEmitted, thLastEmitTime>>
    /\ thLinesDrawn' = thLinesDrawn + 1
    /\ inputs' = inputs + 1
    /\ UNCHANGED <<thNow, thIsConnected, thIsDrawing, thThrottleDelay, thTimers, thStroke,
                   thOthers>>

\* stopDrawing (mouseup, mouseout)
thStopDrawing ==
    /\ thIsDrawing
    /\ thIsDrawing' = FALSE
    /\ inputs' = inputs + 1
    /\ UNCHANGED <<thNow, thIsConnected, thLastEmitTime, thThrottleDelay, thLocalHistory,
                   thOfflineBuffer, thTimers, thEmitted, thStroke, thLocal, thOthers>>

\* setThrottleDelay of the public API
setThrottleDelay(delay) ==
    /\ thThrottleDelay' = IF delay >= 16 /\ delay <= 200 THEN delay ELSE thThrottleDelay
    /\ inputs' = inputs + 1
    /\ UNCHANGED <<thNow, thIsConnected, thIsDrawing, thLastEmitTime, thLocalHistory,
                   thOfflineBuffer, thTimers, thEmitted, thStroke, thLocal, thOthers>>

ThrottleInput ==
    \/ \E d \in TickSteps : thTick(d)
    \/ thOnConnect
    \/ thOnDisconnect
    \/ thStartDrawing
    \/ thDraw
    \/ thStopDrawing
    \/ \E delay \in DelayInputs : setThrottleDelay(delay)

NextThrottle ==
    \/ inputs < MaxThrottleInputs /\ ThrottleInput
    \/ thFlushTimer

SpecThrottle == Init /\ [][NextThrottle]_vars

(***************************************************************************)
(* Size limits of WhiteboardApp (public/app.js): one client that stays     *)
(* offline and draws more segments than the history limit, and one client  *)
(* whose page records more errors than the error-log limit.                *)
(***************************************************************************)
HistoryInput ==
    \/ startDrawing(TheClient)
    \/ lastX[TheClient] < MAX_HISTORY_SIZE + MaxOverflow /\ draw(TheClient)
    \/ stopDrawing(TheClient)

\* the budget counts the inputs that are not pointer samples
NextHistory == inputs - lastX[TheClient] < MaxHistoryInputs /\ HistoryInput

SpecHistory == Init /\ [][NextHistory]_vars

\* socket.on('connect_error')
OnConnectError(c) ==
    /\ ~sockConnected[c]
    /\ wantConn[c]
    /\ errorLog' = [errorLog EXCEPT ![c] = logError(@, "connect_error", socketId[c])]
    /\ inputs' = inputs + 1
    /\ UNCHANGED <<netVars, isConnected, isReconnecting, socketId, reconnectAttempts,
                   onlineUsers, isDrawing, lastX, linesDrawn, localHistory, offlineBuffer,
                   canvas, timers, logVars, rmVars, extVars>>

\* window 'error' and 'unhandledrejection' listeners: getState() copies the
\* state object but not the array, so the push lands in state.errorLog
globalErrorHandler(c, type) ==
    /\ errorLog' = [errorLog EXCEPT ![c] = Append(@, [type |-> type, socketId |-> 0])]
    /\ inputs' = inputs + 1
    /\ UNCHANGED <<netVars, isConnected, isReconnecting, socketId, reconnectAttempts,
                   onlineUsers, isDrawing, lastX, linesDrawn, localHistory, offlineBuffer,
                   canvas, timers, logVars, rmVars, extVars>>

\* clearErrorLog of the public API
clearErrorLog(c) ==
    /\ errorLog[c] # <<>>
    /\ errorLog' = [errorLog EXCEPT ![c] = <<>>]
    /\ inputs' = inputs + 1
    /\ UNCHANGED <<netVars, isConnected, isReconnecting, socketId, reconnectAttempts,
                   onlineUsers, isDrawing, lastX, linesDrawn, localHistory, offlineBuffer,
                   canvas, timers, logVars, rmVars, extVars>>

\* entries of a log that are not uncaught errors
OtherErrors(log) == {k \in 1..Len(log) : log[k].type # "global_error"}

ErrorInput ==
    \/ globalErrorHandler(TheClient, "global_error")
    \/ /\ Cardinality(OtherErrors(errorLog[TheClient])) < MaxOtherErrors
       /\ \/ globalErrorHandler(TheClient, "unhandled_promise")
          \/ OnConnectError(TheClient)
    \/ Len(errorLog[TheClient]) <= MaxOtherErrors /\ clearErrorLog(TheClient)

NextErrors == inputs < ErrorLogMax + MaxErrorInputs /\ ErrorInput

SpecErrors == Init /\ [][NextErrors]_vars

NextReconnect == attemptReconnect \/ reset

SpecReconnect == Init /\ [][NextReconnect]_vars

(***************************************************************************)
(* Properties of the relay (checked under Spec).                           *)
(***************************************************************************)
Last(q) == q[Len(q)]
Range(q) == {q[i] : i \in DOMAIN q}

\* a payload the draw contract excludes: null, a coordinate that is not a
\* number, a colour that is not a string, or a brush size that is not a
\* number within 1..20
Malformed(p) ==
    \/ ~p.obj
    \/ \E v \in {p.x0, p.y0, p.x1, p.y1} : v[1] \notin {"number", "nan", "inf"}
    \/ p.color[1] \notin {"string", "sid", "iso"}
    \/ ~(p.brushSize[1] = "number" /\ p.brushSize[2] >= 1 /\ p.brushSize[2] <= 20)

SameSegment(d, e) ==
    /\ d.x0 = e.x0 /\ d.y0 = e.y0 /\ d.x1 = e.x1 /\ d.y1 = e.y1
    /\ d.color = e.color /\ d.brushSize = e.brushSize

\* the server takes the event at the head of socket s's inbound queue
ServerTakes(s, type) ==
    /\ ServerHas(s, type)
    /\ toServer'[s] = Tail(toServer[s])
    /\ s \in connectedUsers'

\* exactly one event was appended to q
GotOne(q, qNext) ==
    /\ Len(qNext) = Len(q) + 1
    /\ SubSeq(qNext, 1, Len(q)) = q

LiveUsers == {t \in connectedUsers : Deliverable(t)}

\* C1: when the server handles a draw event whose payload is malformed, no
\* event is sent to any socket (sender included), and no draw event with a
\* malformed payload is ever on its way to a client.
C1_InvalidDrawDropped ==
    [][ /\ \A s \in SocketIds :
             (ServerTakes(s, "draw") /\ Malformed(Head(toServer[s]).data))
                 => toClient' = toClient
        /\ \A t \in SocketIds : \A i \in DOMAIN toClient'[t] :
             toClient'[t][i].type = "draw" => ~Malformed(toClient'[t][i].data)
      ]_vars

\* a malformed draw event was rejected while two clients were connected,
\* and nothing came of it
C1_Witness ==
    /\ invalidDraws > 0
    /\ Cardinality(LiveUsers) >= 2
    /\ \A c \in Clients : sockConnected[c] /\ canvas[c] = <<>>
    /\ \A t \in SocketIds : toServer[t] = <<>> /\ toClient[t] = <<>>

\* C2: no draw event on its way to a connection was sent by that connection.
C2_NoEcho ==
    \A s \in SocketIds : \A i \in DOMAIN toClient[s] :
        toClient[s][i].type = "draw" => toClient[s][i].from # s

\* a draw event of a still connected sender is on its way to another client
C2_Witness ==
    \E s \in LiveUsers : \E t \in SocketIds \ {s} : \E i \in DOMAIN toClient[t] :
        toClient[t][i].type = "draw" /\ toClient[t][i].from = s

\* C3: when the server handles a well-formed draw event from socket s, every
\* other registered socket whose connection is up gets exactly one draw event
\* appended, with the sender's x0, y0, x1, y1, color and brushSize, and no
\* other queue changes.
C3_ValidDrawDelivered ==
    [][ \A s \in SocketIds :
          (ServerTakes(s, "draw") /\ ~Malformed(Head(toServer[s]).data))
              => \A t \in SocketIds :
                    IF t \in LiveUsers \ {s}
                    THEN /\ GotOne(toClient[t], toClient'[t])
                         /\ Last(toClient'[t]).type = "draw"
                         /\ SameSegment(Last(toClient'[t]).data, Head(toServer[s]).data)
                    ELSE toClient'[t] = toClient[t]
      ]_vars

\* a client has rendered a draw event relayed by the server
C3_Witness ==
    \E c \in Clients : sockConnected[c] /\ Len(canvas[c]) > 0 /\ linesDrawn[c] > 0

\* C4: when the server handles a clear-canvas event, every registered socket
\* whose connection is up, the issuer's included, gets exactly one
\* clear-canvas event appended.
C4_ClearInclusive ==
    [][ \A s \in SocketIds :
          ServerTakes(s, "clear-canvas")
              => \A t \in SocketIds :
                    IF t \in LiveUsers
                    THEN /\ GotOne(toClient[t], toClient'[t])
                         /\ Last(toClient'[t]).type = "clear-canvas"
                    ELSE toClient'[t] = toClient[t]
      ]_vars

\* the issuer's own clear-canvas is on its way back to it and to another client
C4_Witness ==
    \E c \in Clients :
        /\ clearsIssued[c] > 0 /\ link[c] # 0
        /\ \E i \in DOMAIN toClient[link[c]] :
              toClient[link[c]][i].type = "clear-canvas" /\ toClient[link[c]][i].from = link[c]
        /\ \E t \in SocketIds \ {link[c]} : \E i \in DOMAIN toClient[t] :
              toClient[t][i].type = "clear-canvas" /\ toClient[t][i].from = link[c]

\* every event the server sent on a connection that is up has been handled
AllDelivered == \A c \in Clients : link[c] # 0 => toClient[link[c]] = <<>>

\* C5: once every server message has been delivered, onlineUsers of every
\* client that is connected (and registered on the server) is the number of
\* connections open on the server.
C5_UserCountAccurate ==
    AllDelivered =>
        \A c \in Clients :
            (sockConnected[c] /\ link[c] \in connectedUsers)
                => onlineUsers[c] = Cardinality(connectedUsers)

\* the server has closed one of two connections, and the client on the other
\* one has been told the new count
C5_Witness ==
    /\ AllDelivered
    /\ \E s \in SocketIds : owner[s] # 0 /\ s \notin connectedUsers
    /\ \E c \in Clients : sockConnected[c] /\ link[c] \in connectedUsers /\ onlineUsers[c] = 1
    /\ Cardinality({s \in SocketIds : owner[s] # 0}) >= 2

(***************************************************************************)
(* Properties of WhiteboardApp (checked under SpecApp and SpecBoard).      *)
(***************************************************************************)
EmittedData(c) == {emitted[c][i].data : i \in DOMAIN emitted[c]}

\* C6: once a client is connected and its flush has run to the end, the
\* offline buffer is empty, every segment still in local history (drawn
\* online, or drawn offline and not undone or cleared) has been emitted on
\* the socket, and the emissions are in creation order.
C6_OfflineRoundTrip ==
    \A c \in Clients :
        (isConnected[c] /\ timers[c] = <<>>)
            => /\ offlineBuffer[c] = <<>>
               /\ \A i \in DOMAIN localHistory[c] : localHistory[c][i] \in EmittedData(c)
               /\ \A i, j \in DOMAIN emitted[c] :
                     (i < j /\ emitted[c][i].flush /\ emitted[c][j].flush)
                         => emitted[c][i].data.x1[2] < emitted[c][j].data.x1[2]

\* C7: when a client has issued a clear, all clients are connected and no
\* event is in flight, the issuer's canvas shows the same set of segments as
\* every other client's canvas.
NothingInFlight == \A s \in SocketIds : toServer[s] = <<>> /\ toClient[s] = <<>>

C7_ClearConsistency ==
    \A a, b \in Clients :
        (clearsIssued[a] > 0 /\ isConnected[a] /\ isConnected[b] /\ NothingInFlight)
            => Range(canvas[a]) = Range(canvas[b])

\* C8: every draw event a flush timer emitted went out on the connection
\* that scheduled it, and the pending flush timers all belong to one pass.
C8_FlushInvalidated ==
    \A c \in Clients :
        /\ \A i \in DOMAIN emitted[c] : emitted[c][i].sched = emitted[c][i].sock
        /\ \A i, j \in DOMAIN timers[c] : timers[c][i].sched = timers[c][j].sched

\* position of call i among the attemptReconnect calls since the last reset
LastReset(i) ==
    LET R == {k \in 1..(i - 1) : rmLog[k].op = "reset"}
    IN  IF R = {} THEN 0 ELSE CHOOSE k \in R : \A m \in R : m <= k

FailureNo(i) == i - LastReset(i)

\* C9: in a run of connection failures, the first 5 calls of
\* attemptReconnect order a retry and no later one does; the delay of a
\* retry is at most 3000 ms and never smaller than the delay of the retry
\* before it.
C9_BackoffBound ==
    \A i \in DOMAIN rmLog :
        rmLog[i].op = "attempt" =>
            /\ rmLog[i].shouldRetry <=> FailureNo(i) <= 5
            /\ rmLog[i].shouldRetry =>
                  /\ rmLog[i].attempt = FailureNo(i)
                  /\ rmLog[i].delay > 0 /\ rmLog[i].delay <= 3000
                  /\ FailureNo(i) > 1 => rmLog[i - 1].delay <= rmLog[i].delay

\* a sixth failure in a row, after delays that reached the cap, is refused
C9_Witness ==
    \E i \in DOMAIN rmLog :
        /\ rmLog[i].op = "attempt" /\ FailureNo(i) = 6 /\ ~rmLog[i].shouldRetry
        /\ rmLog[i - 1].shouldRetry /\ rmLog[i - 1].delay = 3000
        /\ rmLog[i - 5].delay = 1000

\* C10: handleUndo with a non-empty history removes exactly the last entry,
\* leaves on the canvas the rendering of the remaining history in order and
\* emits nothing; with an empty history it changes nothing.
C10_UndoLocal ==
    [][ \A c \in Clients :
          handleUndo(c) =>
              IF localHistory[c] = <<>>
              THEN UNCHANGED <<netVars, appVars, logVars>>
              ELSE /\ localHistory'[c] = SubSeq(localHistory[c], 1, Len(localHistory[c]) - 1)
                   /\ canvas'[c] = [i \in 1..Len(localHistory'[c]) |-> drawLine(localHistory'[c][i])]
                   /\ toServer' = toServer /\ toClient' = toClient
                   /\ emitted' = emitted
      ]_vars

\* two segments were drawn, nothing was cleared, and an undo has left the
\* first one in the history and on the canvas
C10_Witness ==
    \E c \in Clients :
        /\ lastX[c] = 2 /\ linesDrawn[c] = 2 /\ clearsIssued[c] = 0
        /\ Len(localHistory[c]) = 1 /\ localHistory[c][1].x1 = Num(1)
        /\ Len(canvas[c]) = 1 /\ canvas[c][1].x1 = Num(1)

Without(q, x) == SelectSeq(q, LAMBDA e : e # x)

\* C11: when handleUndo removes a segment from local history, the offline
\* buffer loses exactly that segment if it was pending there and is left
\* unchanged otherwise.
C11_UndoBuffer ==
    [][ \A c \in Clients :
          (handleUndo(c) /\ localHistory[c] # <<>>) =>
              LET seg == Last(localHistory[c])
              IN  IF seg \in Range(offlineBuffer[c])
                  THEN offlineBuffer'[c] = Without(offlineBuffer[c], seg)
                  ELSE offlineBuffer'[c] = offlineBuffer[c]
      ]_vars

\* two segments were drawn before the first connect and an undo has taken
\* the second one out of the history and out of the buffer
C11_Witness ==
    \E c \in Clients :
        /\ socketId[c] = 0 /\ ~isConnected[c] /\ lastX[c] = 2 /\ clearsIssued[c] = 0
        /\ Len(localHistory[c]) = 1 /\ localHistory[c][1].x1 = Num(1)
        /\ offlineBuffer[c] = localHistory[c]

\* C12: a draw step with isConnected false appends the segment to the
\* offline buffer and to local history and emits nothing; a draw step with
\* isConnected true leaves the offline buffer as it is.
C12_OfflineDrawBuffered ==
    [][ \A c \in Clients :
          draw(c) =>
              IF ~isConnected[c]
              THEN /\ offlineBuffer'[c] = Append(offlineBuffer[c], NextLine(c))
                   /\ localHistory'[c] = Append(localHistory[c], NextLine(c))
                   /\ toServer' = toServer
                   /\ emitted' = emitted
              ELSE offlineBuffer'[c] = offlineBuffer[c]
      ]_vars

\* a client has drawn one segment online and, after losing the connection,
\* a second one that sits in the buffer and was not emitted
C12_Witness ==
    \E c \in Clients :
        /\ ~isConnected[c] /\ socketId[c] # 0
        /\ Len(emitted[c]) = 1 /\ ~emitted[c][1].flush
        /\ Len(offlineBuffer[c]) = 1 /\ offlineBuffer[c][1].x1 = Num(2)
        /\ Len(localHistory[c]) = 2

(***************************************************************************)
(* Properties of isValidDrawData as a function (checked under              *)
(* SpecValidate).                                                          *)
(***************************************************************************)
FiniteNumber(v) == v[1] = "number"

WellFormedDraw(p) ==
    /\ p.obj
    /\ FiniteNumber(p.x0) /\ FiniteNumber(p.y0) /\ FiniteNumber(p.x1) /\ FiniteNumber(p.y1)
    /\ p.color[1] = "string"
    /\ FiniteNumber(p.brushSize) /\ p.brushSize[2] >= 1 /\ p.brushSize[2] <= 20

\* C13: isValidDrawData returns true exactly for the payloads whose four
\* coordinates are finite numbers, whose color is a string and whose
\* brushSize is a number between 1 and 20; every other payload (null, NaN or
\* infinite coordinates included) gets a false value.
C13_ValidatorIff ==
    vResult # "none" => (vResult = "true" <=> WellFormedDraw(vData))

(***************************************************************************)
(* Further properties of WhiteboardApp.                                    *)
(***************************************************************************)
\* handleClearCanvas asks for confirmation when the client is connected or
\* has offline drawings; otherwise it only shows an alert
ConfirmAsked(c) == isConnected[c] \/ Len(offlineBuffer[c]) > 0

\* C14: when the user confirms a clear, local history, the offline buffer
\* and the canvas are empty afterwards, online and offline, and a
\* clear-canvas event is emitted (socket.emit is called, counted in
\* clearsIssued) exactly when the client is connected.
C14_LocalClear ==
    [][ \A c \in Clients :
          (handleClearCanvas(c, TRUE) /\ ConfirmAsked(c)) =>
              /\ localHistory'[c] = <<>>
              /\ offlineBuffer'[c] = <<>>
              /\ canvas'[c] = <<>>
              /\ IF isConnected[c]
                 THEN /\ clearsIssued'[c] = clearsIssued[c] + 1
                      /\ toServer' = ClientEmit(toServer, c,
                                                Msg("clear-canvas", NullData, 0, link[c]))
                 ELSE /\ clearsIssued' = clearsIssued
                      /\ toServer' = toServer
      ]_vars

\* a client that drew while offline has cleared locally: something was
\* drawn, nothing is left, nothing was sent to the server
C14_Witness ==
    \E c \in Clients :
        /\ ~isConnected[c] /\ lastX[c] > 0 /\ linesDrawn[c] = 0
        /\ localHistory[c] = <<>> /\ offlineBuffer[c] = <<>> /\ canvas[c] = <<>>
        /\ clearsIssued[c] = 0 /\ emitted[c] = <<>>

\* C15: the clear-canvas handler of a client leaves its canvas blank and its
\* local history and offline buffer empty.
C15_RemoteClearWipes ==
    [][ \A c \in Clients :
          OnClearCanvas(c) =>
              canvas'[c] = <<>> /\ localHistory'[c] = <<>> /\ offlineBuffer'[c] = <<>>
      ]_vars

\* a client that drew a segment and issued no clear itself has had its
\* canvas and history wiped by another client's clear
C15_Witness ==
    \E b \in Clients :
        /\ lastX[b] > 0 /\ clearsIssued[b] = 0 /\ isConnected[b]
        /\ localHistory[b] = <<>> /\ canvas[b] = <<>> /\ offlineBuffer[b] = <<>>
        /\ \E a \in Clients \ {b} : clearsIssued[a] > 0

\* C16: while a client is disconnected and its offline buffer holds more
\* than 100 segments, a pointer-down or touch-start leaves isDrawing false
\* and leaves local history and the offline buffer as they are.
C16_CapacityGuard ==
    [][ \A c \in Clients :
          ((startDrawing(c) \/ handleTouchStart(c))
              /\ ~isConnected[c] /\ Len(offlineBuffer[c]) > 100) =>
                  /\ isDrawing'[c] = FALSE
                  /\ localHistory'[c] = localHistory[c]
                  /\ offlineBuffer'[c] = offlineBuffer[c]
      ]_vars

\* 101 segments are buffered, the stroke has ended, and one more input than
\* the pointer-down / pointer-up pairs was made: a rejected pointer-down or
\* touch-start
C16_Witness ==
    \E c \in Clients :
        /\ ~isConnected[c] /\ ~isDrawing[c]
        /\ Len(offlineBuffer[c]) = 101 /\ Len(localHistory[c]) = 101
        /\ (inputs - lastX[c]) % 2 = 1

C18_DisconnectReconnecting ==
    [][\A reason \in SocketDisconnectReasons :
          smOnDisconnect(reason) =>
              (smIsReconnecting' <=> reason # "io server disconnect")]_vars

\* C20: within one stroke of the throttled app, any two draw events that
\* draw() emitted on the socket are at least the throttle delay apart (the
\* delay in force when the later one was emitted)
C20_ThrottleCadence ==
    \A i, j \in 1..Len(thEmitted) :
        (/\ i < j
         /\ thEmitted[i].by = "draw"
         /\ thEmitted[j].by = "draw"
         /\ thEmitted[i].stroke = thEmitted[j].stroke)
        => thEmitted[j].time - thEmitted[i].time >= thEmitted[j].delay

\* two emissions of one stroke with a sample between them that was drawn
\* locally but not emitted
C20_Witness ==
    \E i, j \in 1..Len(thEmitted) :
        /\ i < j
        /\ thEmitted[i].by = "draw"
        /\ thEmitted[j].by = "draw"
        /\ thEmitted[i].stroke = thEmitted[j].stroke
        /\ \E k \in 1..Len(thLocalHistory) :
              /\ thLocalHistory[k].stroke = thEmitted[i].stroke
              /\ thLocalHistory[k].time > thEmitted[i].time
              /\ thLocalHistory[k].time < thEmitted[j].time

\* samples of stroke n recorded in a sequence of segments
OfStroke(q, n) == {k \in 1..Len(q) : q[k].stroke = n}

\* C21: throttling never affects local state: every pointer-move sample of a
\* stroke appends one entry to the local history, paints one segment and
\* adds one to linesDrawn, whether or not it is emitted on the socket
C21_LocalStateUnthrottled ==
    [][thDraw =>
          LET sample == [stroke |-> thStroke, time |-> thNow]
          IN  /\ thLocalHistory' = Append(thLocalHistory, sample)
              /\ thCanvas' = Append(thCanvas, sample)
              /\ thLinesDrawn' = thLinesDrawn + 1]_vars

\* a stroke drawn while connected whose history holds more samples than
\* draw() emitted for it
C21_Witness ==
    /\ thIsConnected
    /\ thOfflineBuffer = <<>>
    /\ thTimers = <<>>
    /\ \A k \in 1..Len(thEmitted) : thEmitted[k].by = "draw"
    /\ \E n \in 1..thStroke :
          /\ Cardinality(OfStroke(thEmitted, n)) >= 1
          /\ Cardinality(OfStroke(thLocalHistory, n)) > Cardinality(OfStroke(thEmitted, n))
          /\ Cardinality(OfStroke(thCanvas, n)) = Cardinality(OfStroke(thLocalHistory, n))
    /\ thLinesDrawn = Len(thLocalHistory)

\* the sample draw() is about to take is the first of its stroke
FirstSample == OfStroke(thLocalHistory, thStroke) = {}

\* C22: when connected, the first pointer-move sample of a new stroke is
\* emitted on the socket at once, however recent the previous stroke's last
\* emission
C22_ThrottleResetPerStroke ==
    [][(thDraw /\ thIsConnected /\ FirstSample) =>
          thEmitted' = Append(thEmitted,
                              thEmission("draw", [stroke |-> thStroke, time |-> thNow]))]_vars

\* draw() emitted the first sample of a stroke less than the throttle delay
\* after it emitted a sample of the stroke before
C22_Witness ==
    \E i, j \in 1..Len(thEmitted) :
        /\ i < j
        /\ thEmitted[i].by = "draw"
        /\ thEmitted[j].by = "draw"
        /\ thEmitted[j].stroke = thEmitted[i].stroke + 1
        /\ thEmitted[j].time - thEmitted[i].time < thEmitted[j].delay
        /\ \A k \in OfStroke(thLocalHistory, thEmitted[j].stroke) :
              thLocalHistory[k].time >= thEmitted[j].sampled

\* the last n elements of q, in order
LastN(q, n) == IF Len(q) > n THEN SubSeq(q, Len(q) - n + 1, Len(q)) ELSE q

\* C23: the local history of every client implementation holds at most
\* MAX_HISTORY_SIZE entries, and a draw leaves the most recent entries in
\* their order, the oldest dropped
C23_BoundedHistory ==
    /\ [](/\ \A c \in Clients : Len(localHistory[c]) <= MAX_HISTORY_SIZE
          /\ Len(smLocalHistory) <= MAX_HISTORY_SIZE)
    /\ [][/\ \A c \in Clients :
                draw(c) => localHistory'[c] =
                              LastN(Append(localHistory[c], NextLine(c)), MAX_HISTORY_SIZE)
          /\ smLocalDraw => smLocalHistory' =
                              LastN(smLocalHistory \o <<smNextLine, smNextLine>>,
                                    MAX_HISTORY_SIZE)]_vars

\* C24: the error log holds at most ErrorLogMax entries, the most recently
\* recorded ones in order: recording an error appends it and evicts the
\* oldest entries beyond the limit
C24_BoundedErrorLog ==
    /\ [](\A c \in Clients : Len(errorLog[c]) <= ErrorLogMax)
    /\ [][\A c \in Clients :
             (errorLog'[c] # errorLog[c] /\ errorLog'[c] # <<>>)
             => errorLog'[c] = LastN(Append(errorLog[c], Last(errorLog'[c])), ErrorLogMax)]_vars

(***************************************************************************)
(* Properties of the relay server, second part (checked under Spec).       *)
(***************************************************************************)
DrawsIn(q) == {i \in DOMAIN q : q[i].type = "draw"}

\* the server's connection handler registers socket s / its disconnect
\* handler removes socket s
ServerAccepts(s) == s \notin connectedUsers /\ s \in connectedUsers'
ServerDrops(s) == s \in connectedUsers /\ s \notin connectedUsers'

\* C25: the server keeps no history: handling a draw or clear-canvas event
\* leaves the set of registered connections unchanged and sends nothing to a
\* socket that is not registered at that moment, and a connection accepted
\* later starts with no draw event on its way to it
C25_NoServerHistory ==
    [][ /\ \A s \in SocketIds :
             (ServerTakes(s, "draw") \/ ServerTakes(s, "clear-canvas"))
                 => /\ connectedUsers' = connectedUsers
                    /\ \A t \in SocketIds \ connectedUsers : toClient'[t] = toClient[t]
        /\ \A s \in SocketIds : ServerAccepts(s) => DrawsIn(toClient'[s]) = {}
      ]_vars

\* a well-formed draw event was handled while its sender was the only
\* registered connection; a second client connected afterwards and has
\* nothing of it, neither rendered nor on its way
C25_Witness ==
    /\ rawSent = 1 /\ invalidDraws = 0
    /\ \A s \in SocketIds : toServer[s] = <<>> /\ DrawsIn(toClient[s]) = {}
    /\ \A s \in SocketIds : owner[s] # 0 => s \in connectedUsers
    /\ Cardinality({c \in Clients : sockConnected[c]}) >= 2
    /\ \A c \in Clients : canvas[c] = <<>> /\ linesDrawn[c] = 0

\* C26: the registry changes only by adding the accepted connection or
\* removing the dropped one; on a connect every registered connection, the
\* new one included, is sent the new size, on a disconnect every remaining
\* one is, and every user-count sent carries the registry size of that moment
C26_ConnectionRegistry ==
    [][ /\ \A s \in SocketIds :
             ServerAccepts(s) =>
                 /\ owner[s] = 0
                 /\ connectedUsers' = connectedUsers \cup {s}
                 /\ Len(toClient'[s]) = 3
                 /\ toClient'[s][2] = UserCountMsg(Cardinality(connectedUsers'))
                 /\ \A t \in SocketIds \ {s} :
                       IF t \in LiveUsers
                       THEN /\ GotOne(toClient[t], toClient'[t])
                            /\ Last(toClient'[t]) = UserCountMsg(Cardinality(connectedUsers'))
                       ELSE toClient'[t] = toClient[t]
        /\ \A s \in SocketIds :
             ServerDrops(s) =>
                 /\ connectedUsers' = connectedUsers \ {s}
                 /\ \A t \in SocketIds :
                       IF t \in LiveUsers \ {s}
                       THEN /\ GotOne(toClient[t], toClient'[t])
                            /\ Last(toClient'[t]) = UserCountMsg(Cardinality(connectedUsers'))
                       ELSE toClient'[t] = toClient[t]
        /\ \A t \in SocketIds : \A i \in DOMAIN toClient'[t] :
             (toClient'[t][i].type = "user-count" /\ i > Len(toClient[t]))
                 => toClient'[t][i].n = Cardinality(connectedUsers')
        /\ (connectedUsers' # connectedUsers) =>
               \E s \in SocketIds : ServerAccepts(s) \/ ServerDrops(s)
      ]_vars

\* two connections were accepted and one of them dropped: the remaining one
\* has the counts 2 and then 1 on its way
C26_Witness ==
    \E s \in connectedUsers : \E t \in SocketIds \ connectedUsers :
        /\ owner[t] # 0
        /\ Cardinality(connectedUsers) = 1
        /\ \E i, j \in DOMAIN toClient[s] :
              /\ i < j
              /\ toClient[s][i] = UserCountMsg(2)
              /\ toClient[s][j] = UserCountMsg(1)

\* C27: when the server handles get-user-count from socket s, exactly one
\* user-count event carrying the registry size is appended for s, and no
\* other socket is sent anything
C27_UserCountReply ==
    [][ \A s \in SocketIds :
          ServerTakes(s, "get-user-count")
              => /\ Deliverable(s) =>
                       /\ GotOne(toClient[s], toClient'[s])
                       /\ Last(toClient'[s]) = UserCountMsg(Cardinality(connectedUsers))
                 /\ \A t \in SocketIds \ {s} : toClient'[t] = toClient[t]
      ]_vars

\* two clients are connected; one of them has received everything but the
\* reply to its request, the other has nothing on its way
C27_Witness ==
    \E s, t \in connectedUsers :
        /\ s # t
        /\ Deliverable(s) /\ Deliverable(t)
        /\ sockConnected[owner[s]] /\ sockConnected[owner[t]]
        /\ toServer[s] = <<>> /\ toServer[t] = <<>>
        /\ toClient[s] = <<UserCountMsg(2)>>
        /\ toClient[t] = <<>>
        /\ onlineUsers[owner[s]] = 2

\* C28: in every draw event the server sends, senderId is the id of the
\* connection the event came in on and timestamp is the server's, whatever
\* the client's payload held in those fields
C28_ServerSetMetadata ==
    [][ \A s \in SocketIds :
          (ServerTakes(s, "draw") /\ ~Malformed(Head(toServer[s]).data))
              => \A t \in LiveUsers \ {s} :
                    /\ Last(toClient'[t]).type = "draw"
                    /\ Last(toClient'[t]).data.senderId = SidStr(s)
                    /\ Last(toClient'[t]).data.timestamp = IsoStr
      ]_vars

\* a payload that named another connection as its sender and carried its own
\* timestamp has been relayed under the real sender's id
C28_Witness ==
    \E t \in SocketIds : \E i \in DrawsIn(toClient[t]) :
        /\ toClient[t][i].data.brushSize = Num(20)
        /\ toClient[t][i].from # 1
        /\ toClient[t][i].data.senderId = SidStr(toClient[t][i].from)
        /\ toClient[t][i].data.timestamp = IsoStr

\* the payload without the two fields the server sets
Unstamped(d) == [d EXCEPT !.senderId = Undef, !.timestamp = Undef]

ConnectionStates(connected, reconnecting) ==
    {st \in {"connected", "reconnecting", "idle"} :
        \/ st = "connected" /\ connected
        \/ st = "reconnecting" /\ reconnecting
        \/ st = "idle" /\ ~connected /\ ~reconnecting}

Created(data) == data.x1[2]

\* C31: the draw events a WhiteboardApp client emits appear in the order in
\* which their segments were created: no segment is emitted before a segment
\* that was created earlier
C31_SendOrder ==
    \A c \in Clients :
        \A i, j \in DOMAIN emitted[c] :
            i < j => Created(emitted[c][i].data) <= Created(emitted[c][j].data)


\* C32: once a client has processed a clear (its own confirmed clear or a
\* clear-canvas event from the server), it emits no draw event for a segment
\* created before that clear
C32_NoEmitAfterClear ==
    [][\A c \in Clients :
          emitted'[c] # emitted[c]
              => Created(Last(emitted'[c]).data) > clearedAt[c]]_vars


(***************************************************************************)
(* Offline buffer and flush of one WhiteboardApp.                          *)
(***************************************************************************)
\* WhiteboardApp.flushBuffer (public API): flushOfflineBuffer itself
flushBuffer(c) ==
    /\ LET f == flushOfflineBuffer(offlineBuffer[c], isConnected[c], timers[c], link[c])
       IN  /\ timers' = [timers EXCEPT ![c] = f.timers]
           /\ offlineBuffer' = [offlineBuffer EXCEPT ![c] = f.offlineBuffer]
    /\ inputs' = inputs + 1
    /\ UNCHANGED <<netVars, isConnected, isReconnecting, socketId, reconnectAttempts,
                   onlineUsers, isDrawing, lastX, linesDrawn, localHistory, errorLog,
                   canvas, logVars, rmVars, extVars>>

\* one client that draws, undoes, clears, loses and regains its connection
\* and calls flushBuffer
FlushInput ==
    \/ ServerConnection(TheClient)
    \/ \E reason \in DisconnectReasons : OnDisconnect(TheClient, reason)
    \/ startDrawing(TheClient)
    \/ lastX[TheClient] < MaxSamples /\ draw(TheClient)
    \/ handleClearCanvas(TheClient, TRUE)
    \/ handleUndo(TheClient)
    \/ flushBuffer(TheClient)

NextFlush ==
    \/ ServerHandles
    \/ SocketHandles(TheClient)
    \/ TimerFire(TheClient)
    \/ Tick(TheClient)
    \/ inputs < MaxFlushInputs /\ FlushInput

SpecFlush == Init /\ [][NextFlush]_vars

\* C33: a WhiteboardApp client emits each segment it drew at most once
C33_NoDuplicateTransmission ==
    \A c \in Clients :
        \A i, j \in DOMAIN emitted[c] :
            i # j => emitted[c][i].data # emitted[c][j].data

\* a client has emitted one segment live on one connection and another
\* segment by a flush timer on a later connection, and no timer is pending
C33_Witness ==
    \E i, j \in DOMAIN emitted[TheClient] :
        /\ ~emitted[TheClient][i].flush /\ emitted[TheClient][j].flush
        /\ emitted[TheClient][i].sock # emitted[TheClient][j].sock
        /\ timers[TheClient] = <<>>


(***************************************************************************)
(* Undo on a shared board.                                                 *)
(***************************************************************************)
\* every client connects and draws; TheClient also undoes and the others
\* clear the board
UndoInput ==
    \/ \E c \in Clients : ServerConnection(c)
    \/ AllConnected /\ \E c \in Clients : startDrawing(c)
    \/ AllConnected /\ \E c \in Clients : lastX[c] < MaxSamples /\ draw(c)
    \/ AllConnected /\ handleUndo(TheClient)
    \/ AllConnected /\ \E c \in Clients \ {TheClient} : handleClearCanvas(c, TRUE)

NextUndo ==
    \/ ServerHandles
    \/ \E c \in Clients : SocketHandles(c)
    \/ inputs < MaxUndoInputs /\ UndoInput

SpecUndo == Init /\ [][NextUndo]_vars

\* the strokes on c's canvas that paint no segment of c's own history: the
\* segments c received from the other clients
ReceivedShown(c) == Range(canvas[c]) \ Range(Render(localHistory[c]))

C35_OneEntryPerSample ==
    [][/\ smLocalDraw => smLocalHistory' = addToHistory(smLocalHistory, smNextLine)
       /\ smOnDraw => smLocalHistory' = smLocalHistory]_vars


\* q is the sequence of the last Len(q) elements of h
IsSuffix(q, h) == Len(q) <= Len(h) /\ q = LastN(h, Len(q))

\* C36: the offline buffer of a WhiteboardApp client is a suffix of its local
\* history: the buffered segments are the most recent history entries, in
\* the same order
C36_BufferSuffixOfHistory ==
    \A c \in Clients : IsSuffix(offlineBuffer[c], localHistory[c])

\* a client whose history starts with a segment it sent live and ends with
\* a buffered one
C36_Witness ==
    /\ offlineBuffer[TheClient] # <<>>
    /\ Len(localHistory[TheClient]) > Len(offlineBuffer[TheClient])

\* C37: between handlers, a WhiteboardApp client that is marked connected
\* has an empty offline buffer
C37_ConnectedBufferEmpty ==
    \A c \in Clients : isConnected[c] => offlineBuffer[c] = <<>>

\* a client just reconnected: its buffered segments wait on flush timers
C37_Witness ==
    /\ isConnected[TheClient]
    /\ offlineBuffer[TheClient] = <<>>
    /\ timers[TheClient] # <<>>


\* C38: the offline buffer of a WhiteboardApp client never holds more than
\* OfflineBufferLimit + 1 segments
C38_BoundedOfflineBuffer ==
    \A c \in Clients : Len(offlineBuffer[c]) <= OfflineBufferLimit + 1


(***************************************************************************)
(* StateManager instances.  A state object refers to its three arrays; an  *)
(* array is shared by every state object that refers to it, and push       *)
(* changes the array in place.                                             *)
(***************************************************************************)
stFields == {"localHistory", "errorLog", "offlineBuffer"}

stCreated(i) == stInstances[i] # NoInstance

\* the array a field of instance i refers to
stArray(i, field) == stArrays[stInstances[i][field]]

\* array.push(item) on the array a field of instance i refers to
stPush(i, field, item) ==
    [stArrays EXCEPT ![stInstances[i][field]] = Append(@, item)]

\* a field of instance i is assigned a new array with the given elements
stAssign(i, field, elements) ==
    /\ stArrays' = Append(stArrays, elements)
    /\ stInstances' = [stInstances EXCEPT ![i][field] = Len(stArrays) + 1]

\* push, then the slice to the last `limit` elements when the array is longer
stPushLimited(i, field, item, limit) ==
    LET pushed == stPush(i, field, item)
        array == pushed[stInstances[i][field]]
    IN  IF Len(array) > limit
        THEN /\ stArrays' = Append(pushed, LastN(array, limit))
             /\ stInstances' = [stInstances EXCEPT ![i][field] = Len(stArrays) + 1]
        ELSE /\ stArrays' = pushed
             /\ UNCHANGED stInstances

stRest == <<netVars, appVars, logVars, rmVars, valVars, reconnectResult, smVars, thVars>>

\* StateManager.init(): state = {...DEFAULT_STATE, ...initialState} with no
\* initialState
stInit(i) ==
    /\ ~stCreated(i)
    /\ stInstances' = [stInstances EXCEPT ![i] = DEFAULT_STATE]
    /\ inputs' = inputs + 1
    /\ UNCHANGED <<stArrays, stRest>>

\* instance.addToHistory(lineData)
stAddToHistory(i) ==
    /\ stCreated(i)
    /\ stPushLimited(i, "localHistory", i, MAX_HISTORY_SIZE)
    /\ inputs' = inputs + 1
    /\ UNCHANGED stRest

\* instance.addToOfflineBuffer(lineData)
stAddToOfflineBuffer(i) ==
    /\ stCreated(i)
    /\ stArrays' = stPush(i, "offlineBuffer", i)
    /\ inputs' = inputs + 1
    /\ UNCHANGED <<stInstances, stRest>>

\* instance.logError(type, message)
stLogError(i) ==
    /\ stCreated(i)
    /\ stPushLimited(i, "errorLog", i, MAX_ERROR_LOG_SIZE)
    /\ inputs' = inputs + 1
    /\ UNCHANGED stRest

\* instance.clearHistory()
stClearHistory(i) ==
    /\ stCreated(i)
    /\ stAssign(i, "localHistory", <<>>)
    /\ inputs' = inputs + 1
    /\ UNCHANGED stRest

\* instance.resetState(): the three arrays are fresh
stResetState(i) ==
    /\ stCreated(i)
    /\ stArrays' = stArrays \o <<<<>>, <<>>, <<>>>>
    /\ stInstances' = [stInstances EXCEPT ![i] =
                          [localHistory |-> Len(stArrays) + 1,
                           errorLog |-> Len(stArrays) + 2,
                           offlineBuffer |-> Len(stArrays) + 3]]
    /\ inputs' = inputs + 1
    /\ UNCHANGED stRest

StateManagerInput ==
    \E i \in Instances :
        \/ stInit(i)
        \/ stAddToHistory(i)
        \/ stAddToOfflineBuffer(i)
        \/ stLogError(i)
        \/ stClearHistory(i)
        \/ stResetState(i)

NextStateManager == inputs < MaxStateInputs /\ StateManagerInput

SpecStateManager == Init /\ [][NextStateManager]_vars

\* what instance i reports as its history, error log and offline buffer
stView(i) == [field \in stFields |-> stArray(i, field)]

\* C39: StateManager instances are independent: init() returns an instance
\* with empty localHistory, offlineBuffer and errorLog, and addToHistory,
\* addToOfflineBuffer and logError on one instance leave the history, buffer
\* and error log of every other instance as they were
C39_IndependentInstances ==
    [][\A i \in Instances :
          /\ stInit(i) => \A field \in stFields :
                             stArrays'[stInstances'[i][field]] = <<>>
          /\ (stAddToHistory(i) \/ stAddToOfflineBuffer(i) \/ stLogError(i))
                => \A j \in Instances \ {i} :
                      stCreated(j) =>
                          \A field \in stFields :
                              stArrays'[stInstances'[j][field]] = stArray(j, field)]_vars

=============================================================================
